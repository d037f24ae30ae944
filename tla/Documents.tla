------------------------------ MODULE Documents ------------------------------
(***************************************************************************)
(* Documents of one person: the section of the person's page that lists,   *)
(* uploads and deletes them, the API's presign, confirm, list and remove,  *)
(* and the object store.  An upload takes a presigned URL, a PUT to the    *)
(* store and a confirmation; each may be the last thing that happens, the  *)
(* URL can be used again until it expires, and a confirmation may name any *)
(* key, as often as somebody sends one.                                    *)
(***************************************************************************)
EXTENDS Naturals

CONSTANTS
  MaxFiles,    \* bound: URLs given out; an upload's number is its object key
  MaxConfirms, \* bound: confirmations sent
  MaxPuts,     \* bound: objects put other than by the upload under way
  MaxLists     \* bound: lists asked for

Keys == 1..MaxFiles
Confirms == 1..MaxConfirms

ASSUME MaxFilesOK == {MaxFiles, MaxConfirms, MaxPuts, MaxLists} \subseteq Nat

NoObject == [content |-> "nothing", large |-> FALSE]
NoFile == [at |-> "none"]
NoConfirm == [at |-> "none"]

VARIABLES
  objects,  \* the object store
  docRows,  \* table person_documents
  visible,  \* the caller sees the person
  file,     \* the upload under way
  issued,   \* object keys given out
  urls,     \* keys whose presigned URL has not expired
  puts,     \* counter behind MaxPuts
  confirms, \* calls of confirm: how far, and the key and kind they hold
  replaced, \* history: keys put again after a confirmation had read their head
  reads,    \* lists under way: number, and rows once served
  asks,     \* lists asked for
  docs,     \* docs() of the section
  removal   \* the deletion under way: its document, 0 for none, and how it ended

documentVars == <<objects, docRows, visible, file, issued, urls, puts, confirms, replaced,
                  reads, asks, docs, removal>>
storeSide == <<objects, urls, puts, replaced>>
section == <<reads, asks, docs, removal>>

DocumentInit ==
  /\ objects = [k \in Keys |-> NoObject]
  /\ docRows = {}
  /\ visible = TRUE
  /\ file = NoFile /\ issued = 0
  /\ urls = {} /\ puts = 0
  /\ confirms = [n \in Confirms |-> NoConfirm] /\ replaced = {}
  /\ reads = {} /\ asks = 0 /\ docs = {}
  /\ removal = [of |-> 0, end |-> "none"]

\* detectFileKind, by the first bytes and not by the name; SVG is refused like
\* everything that is no image and no PDF.
Detected(content) == IF content \in {"image", "pdf"} THEN content ELSE "unsupported"
Contents == {"image", "pdf", "other"}

-----------------------------------------------------------------------------
\* An upload.  The section looks at the declared type and the size first;
\* another client of the API need not.
OnFile(type, size, content, large, hints) ==
  /\ file = NoFile /\ issued < MaxFiles
  /\ hints => type # "svg" /\ size = large /\ ~large
  /\ file' = [at |-> "presign", type |-> type, size |-> size, content |-> content, large |-> large]
  /\ UNCHANGED <<storeSide, docRows, visible, issued, confirms, section>>

\* The URL lives 900 seconds.
Presign ==
  /\ file.at = "presign"
  /\ IF visible /\ file.type \in {"image", "pdf"} /\ ~file.size
     THEN /\ issued' = issued + 1 /\ urls' = urls \cup {issued + 1}
          /\ file' = [at |-> "put", key |-> issued + 1, content |-> file.content, large |-> file.large]
     ELSE UNCHANGED <<issued, urls>> /\ file' = [at |-> "refused"]
  /\ UNCHANGED <<objects, puts, replaced, docRows, visible, confirms, section>>

UrlExpires(k) ==
  /\ k \in urls /\ urls' = urls \ {k}
  /\ UNCHANGED <<objects, puts, replaced, docRows, visible, file, issued, confirms, section>>

\* The keys whose first bytes a confirmation has read.
Checked == {confirms[n].key : n \in {m \in Confirms : confirms[m].at \notin {"none", "head", "unread"}}}

PutObject(k, content, large) ==
  /\ k \in urls
  /\ objects' = [objects EXCEPT ![k] = [content |-> content, large |-> large]]
  /\ replaced' = replaced \cup ({k} \cap Checked)
  /\ UNCHANGED <<docRows, visible, issued, urls, confirms, section>>

PutBytes ==
  /\ file.at = "put"
  /\ PutObject(file.key, file.content, file.large)
  /\ file' = [at |-> "confirm", key |-> file.key] /\ UNCHANGED puts

\* Whoever holds the URL puts once more, or a PUT the section gave up arrives.
PutAgain(k, content, large) ==
  /\ puts < MaxPuts /\ puts' = puts + 1
  /\ PutObject(k, content, large) /\ UNCHANGED file

-----------------------------------------------------------------------------
\* confirm: the person must be visible; a key is taken as the client names it.
StartConfirm(n, k) ==
  /\ confirms[n].at = "none" /\ (n > 1 => confirms[n - 1].at # "none")
  /\ confirms' = [confirms EXCEPT ![n] = [at |-> IF visible THEN "head" ELSE "unread", key |-> k]]
  /\ UNCHANGED <<storeSide, docRows, visible, issued, section>>

SectionConfirms(n) ==
  /\ file.at = "confirm" /\ StartConfirm(n, file.key)
  /\ file' = [at |-> "wait", call |-> n]

OthersConfirm(n, k) == StartConfirm(n, k) /\ UNCHANGED file

ConfirmAt(n, to) == confirms' = [confirms EXCEPT ![n] = to]

\* Mutant: only SVG is looked for; whatever is no PDF counts as an image.
ReadHead_NoUnsupported(n) ==
  LET k == confirms[n].key IN
  /\ confirms[n].at = "head"
  /\ ConfirmAt(n, IF objects[k] = NoObject THEN [at |-> "unread", key |-> k]
                ELSE [at |-> "size", key |-> k,
                      kind |-> IF Detected(objects[k].content) = "pdf" THEN "pdf" ELSE "image"])
  /\ UNCHANGED <<storeSide, docRows, visible, file, issued, section>>

\* getFirstBytes: a missing object is an error of its own.
ReadHead(n) ==
  LET k == confirms[n].key
      kind == Detected(objects[k].content)
  IN  /\ confirms[n].at = "head"
      /\ ConfirmAt(n, IF objects[k] = NoObject THEN [at |-> "unread", key |-> k]
                    ELSE [at |-> IF kind = "unsupported" THEN "remove" ELSE "size",
                          key |-> k, kind |-> kind])
      /\ UNCHANGED <<storeSide, docRows, visible, file, issued, section>>

\* stat: the object may be another one by now, or none.
Stat(n) ==
  LET o == objects[confirms[n].key]
  IN  /\ confirms[n].at = "size"
      /\ ConfirmAt(n, [confirms[n] EXCEPT !.at = IF o = NoObject THEN "refused"
                                               ELSE IF o.large THEN "remove" ELSE "register"])
      /\ UNCHANGED <<storeSide, docRows, visible, file, issued, section>>

\* What was refused is removed; a failure to do so is ignored.
RemoveObject(n) ==
  /\ confirms[n].at = "remove"
  /\ objects' \in {objects, [objects EXCEPT ![confirms[n].key] = NoObject]}
  /\ ConfirmAt(n, [confirms[n] EXCEPT !.at = "refused"])
  /\ UNCHANGED <<urls, puts, replaced, docRows, visible, file, issued, section>>

RegisterRow(n) ==
  /\ confirms[n].at = "register"
  /\ docRows' = docRows \cup
       {[id |-> n, key |-> confirms[n].key, kind |-> confirms[n].kind, deleted |-> FALSE]}
  /\ ConfirmAt(n, [confirms[n] EXCEPT !.at = "ok"])
  /\ UNCHANGED <<storeSide, visible, file, issued, section>>

-----------------------------------------------------------------------------
\* The list.  Answers may overtake each other; the last to arrive stays.
reload ==
  /\ asks < MaxLists
  /\ asks' = asks + 1
  /\ reads' = reads \cup {[no |-> asks + 1, served |-> FALSE, rows |-> {}]}

apiSide == <<storeSide, visible, issued, confirms>>

OpenSection ==
  /\ asks = 0
  /\ reload
  /\ UNCHANGED <<apiSide, docRows, file, docs, removal>>

ListForPerson(r) ==
  /\ ~r.served /\ visible
  /\ reads' = (reads \ {r}) \cup
       {[r EXCEPT !.served = TRUE, !.rows = {d.id : d \in {e \in docRows : ~e.deleted}}]}
  /\ UNCHANGED <<apiSide, docRows, file, asks, docs, removal>>

ListArrives(r) ==
  /\ r.served
  /\ docs' = r.rows
  /\ reads' = reads \ {r}
  /\ UNCHANGED <<apiSide, docRows, file, asks, removal>>

ListFails(r) ==
  /\ reads' = reads \ {r}
  /\ UNCHANGED <<apiSide, docRows, file, asks, docs, removal>>

Uploaded ==
  /\ file.at = "wait" /\ confirms[file.call].at = "ok"
  /\ file' = NoFile
  /\ reload
  /\ UNCHANGED <<apiSide, docRows, docs, removal>>

\* A refusal, or a lost call or answer: the upload ends for the section, and a
\* confirmation that was sent still runs.
UploadFailed ==
  /\ file # NoFile
  /\ file' = NoFile
  /\ UNCHANGED <<apiSide, docRows, section>>

ConfirmDelete(d) ==
  /\ d \in docs /\ removal.of = 0
  /\ removal' = [of |-> d, end |-> "sent"]
  /\ UNCHANGED <<apiSide, docRows, file, reads, asks, docs>>

\* The object stays in the store.
RemoveDocument ==
  /\ removal.end = "sent"
  /\ \E d \in docRows :
       /\ d.id = removal.of /\ ~d.deleted
       /\ docRows' = (docRows \ {d}) \cup {[d EXCEPT !.deleted = TRUE]}
  /\ removal' = [removal EXCEPT !.end = "done"]
  /\ UNCHANGED <<apiSide, file, reads, asks, docs>>

DocumentRemoved ==
  /\ removal.end = "done"
  /\ removal' = [of |-> 0, end |-> "none"]
  /\ reload
  /\ UNCHANGED <<apiSide, docRows, file, docs>>

RemoveRefused ==
  /\ removal.of # 0
  /\ removal' = [of |-> 0, end |-> "none"]
  /\ UNCHANGED <<apiSide, docRows, file, reads, asks, docs>>

\* The person is deleted, or leaves the caller's scope.
HidePerson ==
  /\ visible = TRUE
  /\ visible' = FALSE
  /\ UNCHANGED <<storeSide, docRows, file, issued, confirms, section>>

UploadNext ==
  \/ \E type \in {"image", "pdf", "svg", "other"}, content \in Contents,
        size, large, hints \in BOOLEAN : OnFile(type, size, content, large, hints)
  \/ Presign \/ PutBytes
  \/ \E k \in Keys : \/ UrlExpires(k)
                     \/ \E content \in Contents, large \in BOOLEAN : PutAgain(k, content, large)
  \/ \E n \in Confirms : \/ SectionConfirms(n)
                         \/ \E k \in 1..issued : OthersConfirm(n, k)
                         \/ ReadHead(n) \/ Stat(n) \/ RemoveObject(n) \/ RegisterRow(n)

SectionNext ==
  \/ Uploaded \/ UploadFailed
  \/ OpenSection
  \/ \E r \in reads : ListForPerson(r) \/ ListArrives(r) \/ ListFails(r)
  \/ \E d \in Confirms : ConfirmDelete(d)
  \/ RemoveDocument \/ DocumentRemoved \/ RemoveRefused

DocumentNext == UploadNext \/ SectionNext \/ HidePerson

DocumentSpec == DocumentInit /\ [][DocumentNext]_documentVars

-----------------------------------------------------------------------------
\* Every document has its object, of the kind its row says and within the limit,
\* whatever the client declared, however often and by whom it was confirmed, and
\* wherever an upload stopped.  Except for an object that was put again after a
\* confirmation had read its head: the URL outlives the check, so another object
\* can take its place, or be removed by a confirmation that refuses it.
DocumentsAreWhatTheySay ==
  \A d \in docRows : d.key \notin replaced =>
    Detected(objects[d.key].content) = d.kind /\ ~objects[d.key].large
=============================================================================
