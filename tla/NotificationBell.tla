--------------------------- MODULE NotificationBell ---------------------------
(***************************************************************************)
(* Notifications of one user: persisted, then emitted to the user's room   *)
(* (notification.service.ts, notification.gateway.ts); and the bell of the *)
(* web client, which loads a page, listens and marks entries as read       *)
(* (core/services/notification.service.ts).  The list of a page and its    *)
(* unread count are read by two statements that run side by side.          *)
(***************************************************************************)
EXTENDS Integers, FiniteSets

CONSTANTS
  MaxNotes, \* bound: notifications persisted
  MaxPages  \* bound: pages loaded

VARIABLES
  unreadIds, readIds, \* table notifications
  toEmit,    \* persisted, not yet emitted
  socket,    \* events on their way to the client
  connected, \* the client's socket is in the room
  pages,     \* the pages asked for and what their statements have read
  marks,     \* mark-as-read calls on their way: ids, All for every one
  shownUnread, shownRead, badge, \* _notifications and _unread
  skewed     \* the table changed between the two statements of a page

bellVars == <<unreadIds, readIds, toEmit, socket, connected, pages, marks,
              shownUnread, shownRead, badge, skewed>>
table == <<unreadIds, readIds, skewed>>
shown == <<shownUnread, shownRead, badge>>

All == 0
NoPage == [pc |-> "none", listed |-> FALSE, counted |-> FALSE,
           unread |-> {}, read |-> {}, count |-> 0]

BellInit ==
  /\ unreadIds = {} /\ readIds = {}
  /\ toEmit = {} /\ socket = {} /\ connected = FALSE
  /\ pages = [p \in 1..MaxPages |-> NoPage] /\ marks = {}
  /\ shownUnread = {} /\ shownRead = {} /\ badge = 0
  /\ skewed = FALSE

-----------------------------------------------------------------------------
(* notification.service.ts, notification.repository.ts *)

Skew == skewed' = (skewed \/ \E p \in DOMAIN pages : pages[p].listed # pages[p].counted)

\* notify: the row first, the channels after it.
Persist ==
  LET n == Cardinality(unreadIds \cup readIds) + 1
  IN /\ n <= MaxNotes
     /\ unreadIds' = unreadIds \cup {n}
     /\ toEmit' = toEmit \cup {n}
     /\ Skew
     /\ UNCHANGED <<readIds, socket, connected, pages, marks, shown>>

\* An event for an empty room is gone, and so is one whose process dies.
Emit(n) ==
  /\ n \in toEmit
  /\ toEmit' = toEmit \ {n}
  /\ socket' = IF connected THEN socket \cup {n} ELSE socket
  /\ UNCHANGED <<table, connected, pages, marks, shown>>

ReadList(p) ==
  /\ pages[p].pc = "sent" /\ ~pages[p].listed
  /\ pages' = [pages EXCEPT ![p].listed = TRUE, ![p].unread = unreadIds, ![p].read = readIds]
  /\ UNCHANGED <<table, toEmit, socket, connected, marks, shown>>

CountUnread(p) ==
  /\ pages[p].pc = "sent" /\ ~pages[p].counted
  /\ pages' = [pages EXCEPT ![p].counted = TRUE, ![p].count = Cardinality(unreadIds)]
  /\ UNCHANGED <<table, toEmit, socket, connected, marks, shown>>

\* markRead and markAllRead of the repository
ServeMark(m) ==
  LET ids == IF m = All THEN unreadIds ELSE {m} \cap unreadIds
  IN /\ m \in marks
     /\ marks' = marks \ {m}
     /\ unreadIds' = unreadIds \ ids /\ readIds' = readIds \cup ids
     /\ IF ids = {} THEN UNCHANGED skewed ELSE Skew
     /\ UNCHANGED <<toEmit, socket, connected, pages, shown>>

LoseMark(m) ==
  /\ m \in marks /\ marks' = marks \ {m}
  /\ UNCHANGED <<table, toEmit, socket, connected, pages, shown>>

-----------------------------------------------------------------------------
(* The web client *)

ClientUnchanged == UNCHANGED <<table, toEmit, pages, marks>>

\* init, by the shell once somebody is signed in
OpenShell(p) ==
  /\ pages[p].pc = "none" /\ ~connected
  /\ \A q \in 1..p-1 : pages[q].pc # "none"
  /\ pages' = [pages EXCEPT ![p].pc = "sent"]
  /\ connected' = TRUE
  /\ UNCHANGED <<table, toEmit, socket, marks, shown>>

\* The transport is lost and comes back; what was sent meanwhile is not kept.
Reconnect ==
  /\ connected /\ socket # {} /\ socket' = {}
  /\ UNCHANGED <<connected, shown>> /\ ClientUnchanged

\* loadList: the answer replaces the list and the badge.
PageArrives(p) ==
  /\ pages[p].listed /\ pages[p].counted /\ pages[p].pc = "sent"
  /\ pages' = [pages EXCEPT ![p] = [NoPage EXCEPT !.pc = "over"]]
  /\ shownUnread' = pages[p].unread /\ shownRead' = pages[p].read
  /\ badge' = pages[p].count
  /\ UNCHANGED <<table, toEmit, socket, connected, marks>>

PageFails(p) ==
  /\ pages[p].pc = "sent"
  /\ pages' = [pages EXCEPT ![p] = [NoPage EXCEPT !.pc = "over"]]
  /\ UNCHANGED <<table, toEmit, socket, connected, marks, shown>>

\* handleIncoming: an entry is shown once and counted each time.
EventArrives(n) ==
  /\ n \in socket /\ connected
  /\ socket' = socket \ {n}
  /\ shownUnread' = IF n \in shownRead THEN shownUnread ELSE shownUnread \cup {n}
  /\ badge' = badge + 1
  /\ UNCHANGED <<connected, shownRead>> /\ ClientUnchanged

\* Mutant: the badge goes down whether the entry was unread or not.
MarkRead_Always(n) ==
  /\ connected /\ n \in shownUnread \cup shownRead /\ Cardinality(marks) < 2
  /\ shownUnread' = shownUnread \ {n} /\ shownRead' = shownRead \cup {n}
  /\ badge' = IF badge = 0 THEN 0 ELSE badge - 1
  /\ marks' = marks \cup {n}
  /\ UNCHANGED <<table, toEmit, socket, connected, pages>>

\* markRead; an entry that is shown as read is not marked again.
MarkRead(n) ==
  /\ connected /\ n \in shownUnread
  /\ shownUnread' = shownUnread \ {n} /\ shownRead' = shownRead \cup {n}
  /\ badge' = IF badge = 0 THEN 0 ELSE badge - 1
  /\ marks' = marks \cup {n}
  /\ UNCHANGED <<table, toEmit, socket, connected, pages>>

MarkAllRead ==
  /\ connected /\ badge > 0
  /\ shownUnread' = {} /\ shownRead' = shownRead \cup shownUnread /\ badge' = 0
  /\ marks' = marks \cup {All}
  /\ UNCHANGED <<table, toEmit, socket, connected, pages>>

\* logout; the request for a page is not cancelled.
Reset ==
  /\ connected /\ connected' = FALSE /\ socket' = {}
  /\ shownUnread' = {} /\ shownRead' = {} /\ badge' = 0
  /\ ClientUnchanged

BellNext ==
  \/ Persist \/ (\E n \in toEmit : Emit(n))
  \/ \E p \in DOMAIN pages : ReadList(p) \/ CountUnread(p) \/ OpenShell(p)
                               \/ PageArrives(p) \/ PageFails(p)
  \/ \E m \in marks : ServeMark(m) \/ LoseMark(m)
  \/ \E n \in socket : EventArrives(n)
  \/ \E n \in shownUnread \cup shownRead : MarkRead(n)
  \/ MarkAllRead \/ Reset \/ Reconnect

BellSpec == BellInit /\ [][BellNext]_bellVars

-----------------------------------------------------------------------------
\* Unless a page was read while the table changed, the badge counts at least
\* the entries that are shown as unread, in whatever order pages, events and
\* clicks come: no unread entry is shown while the badge is gone.
BadgeCoversShown == ~skewed => Cardinality(shownUnread) <= badge
=============================================================================
