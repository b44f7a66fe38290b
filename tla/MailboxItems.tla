---------------------------- MODULE MailboxItems ----------------------------
(***************************************************************************)
(* The folders of the members' mailboxes, the attachments of the messages, *)
(* the bytes that a mailbox has used, and who may change them at the same  *)
(* time: the members, the administrators, the retention of messages, and   *)
(* the verdicts of the mail provider.                                      *)
(*                                                                         *)
(* A request reads, in one step, and writes in a transaction that writes   *)
(* by id: between the two others write.  Files are outside the database:   *)
(* an attachment's is written before its row and deleted after it.  A      *)
(* transaction, its answer or a file operation may fail while the server   *)
(* lives on.  Every attachment is one unit long.                           *)
(*                                                                         *)
(* How a message is scheduled, checked and sent is in MailDelivery; here a *)
(* schedule is made, taken back, carried out or given up at once, and only *)
(* sending at once is a request.                                           *)
(***************************************************************************)
EXTENDS Integers, FiniteSets

CONSTANTS
  Members,      \* each has a mailbox, created when it is first used
  Messages,
  Attachments,
  Requests,     \* requests that may be in progress at the same time
  Author,       \* who writes a message
  Limits,       \* storage limits; the first is the one a mailbox is created with
  FirstLimit,
  MaxRequests,  \* bound: how many requests are made
  MaxCrash,     \* bound: how often the server dies in the middle of a request
  MaxFault      \* bound: how often a transaction or a file operation fails

Absent   == "none"
New      == "new"    \* an attachment not uploaded yet
Past     == "past"   \* an attachment whose row was deleted, or never made

ASSUME MailboxAssumption ==
  /\ New \notin Messages /\ Past \notin Messages
  /\ IsFiniteSet(Attachments)
  /\ Author \in [Messages -> Members]
  /\ Limits \subseteq Nat /\ FirstLimit \in Limits
  /\ MaxRequests \in Nat /\ MaxCrash \in Nat /\ MaxFault \in Nat

VARIABLES
  status,   \* email_messages
  item,     \* mailbox_messages: the folder a member has a message in
  row,      \* message_attachments: the message an attachment belongs to
  files,    \* the files of attachmentStorage
  box,      \* mailboxes: which one the member has now, storageUsed and storageLimit
  req,      \* the requests in progress
  late,     \* history: the requests that read something which is no longer so
  left,     \* how many more requests are made
  crashes,  \* how often the server may still die
  faults    \* how often a transaction or a file operation may still fail

content == <<status, item, row>>
fuel    == <<left, crashes, faults>>
vars    == <<status, item, row, files, box, req, late, left, crashes, faults>>

\* A message that the scheduler works on (SENDING) is SCHEDULED here.
Statuses == {"none", "DRAFT", "SCHEDULED", "SENT", "FAILED", "gone"}
Folders  == {"DRAFTS", "SENT", "INBOX", "ARCHIVE", "TRASH", "QUARANTINE"}

Idle == [pc |-> "idle", user |-> {}, messages |-> {}, folder |-> Absent, files |-> {}, box |-> 0,
         limit |-> 0]
At(r, pc) == req[r].pc = pc
Holder(r) == CHOOSE u \in Members : req[r].user = {u}

Of(m) == {a \in Attachments : row[a] = m}
Editable(m) == status[m] = "DRAFT" /\ item[Author[m]][m] = "DRAFTS"

\* What a request has read, when it is about to write.
Seen(r) ==
  CASE req[r].pc = "limit"            -> {<<u, box[u]>> : u \in req[r].user}
    [] req[r].pc = "drop"             -> {<<u, item[u]>> : u \in req[r].user}
    [] req[r].pc \in {"move", "purge"} ->
         {<<m, {item[u][m] : u \in req[r].user}>> : m \in req[r].messages}
    [] req[r].pc = "send"             -> {<<m, status[m]>> : m \in req[r].messages}
    [] req[r].pc \in {"attach", "detach", "discard", "retain"} ->
         {<<m, status[m], Of(m), {box[u].gen : u \in req[r].user}>> : m \in req[r].messages}
    [] OTHER -> {}

\* A request is late from the moment another changes what it has read, until it answers.
Watch(actors) ==
  late' = {r \in Requests : /\ req'[r] # Idle
                            /\ r \in late \/ (r \notin actors /\ Seen(r)' # Seen(r))}

Begin(r, q) ==
  /\ req[r] = Idle /\ left > 0
  /\ left' = left - 1
  /\ req' = [req EXCEPT ![r] = q]
  /\ late' = late
  /\ UNCHANGED <<content, box, crashes, faults>>

Answer(r) == req' = [req EXCEPT ![r] = Idle]

-----------------------------------------------------------------------------
(* Messages come and go                                                    *)

\* createDraft, createReply, createForward: the message and its item in one transaction.
CreateDraft(m) ==
  /\ status[m] = "none"
  /\ status' = [status EXCEPT ![m] = "DRAFT"]
  /\ item' = [item EXCEPT ![Author[m]][m] = "DRAFTS"]
  /\ UNCHANGED <<row, files, box, req, fuel>>
  /\ Watch({})

\* schedule, cancelSchedule, and the scheduler that gives up.
Schedule(m) ==
  /\ \/ Editable(m) /\ status' = [status EXCEPT ![m] = "SCHEDULED"]
     \/ status[m] = "SCHEDULED" /\ \E s \in {"DRAFT", "FAILED"} : status' = [status EXCEPT ![m] = s]
  /\ UNCHANGED <<item, row, files, box, req, fuel>>
  /\ Watch({})

\* deliver: the author's item is updated, whatever its folder; the others' are upserted.
Delivery(m, to) ==
  /\ status' = [status EXCEPT ![m] = "SENT"]
  /\ item' = [u \in Members |-> IF u = Author[m] THEN [item[u] EXCEPT ![m] = "SENT"]
                                ELSE IF u \in to THEN [item[u] EXCEPT ![m] = "INBOX"]
                                ELSE item[u]]
Deliverable(m) == status[m] # "gone" /\ item[Author[m]][m] # Absent

\* By the scheduler.
Deliver(m, to) ==
  /\ status[m] = "SCHEDULED" /\ Deliverable(m)
  /\ Delivery(m, to)
  /\ UNCHANGED <<row, files, box, req, fuel>>
  /\ Watch({})

\* By the author: send looks for a DRAFT, not for the folder it is in ...
SendRead(r, m) ==
  /\ status[m] = "DRAFT"
  /\ Begin(r, [Idle EXCEPT !.pc = "send", !.user = {Author[m]}, !.messages = {m}])
  /\ UNCHANGED files

\* ... and writes the message and the item by id, which fails when either is gone.
Send(r, to) ==
  /\ At(r, "send")
  /\ LET m == CHOOSE m \in req[r].messages : TRUE IN
     IF Deliverable(m) THEN Delivery(m, to) ELSE UNCHANGED <<status, item>>
  /\ Answer(r)
  /\ UNCHANGED <<row, files, box, fuel>>
  /\ Watch({r})

\* processProviderSignal, for spam, phishing and malware: every item there is, whatever its folder.
Verdict(m) ==
  /\ status[m] \notin {"none", "gone"}
  /\ item' = [u \in Members |->
       [item[u] EXCEPT ![m] = IF @ = Absent THEN Absent ELSE "QUARANTINE"]]
  /\ UNCHANGED <<status, row, files, box, req, fuel>>
  /\ Watch({})

-----------------------------------------------------------------------------
(* Folders                                                                 *)

\* Mutant of Sources: what is in quarantine may be restored.
SourcesAny(folder, bulk) == Folders \ {"DRAFTS"}

\* The folders from which updateMailboxItem, and bulkAction, move to this one.
Sources(folder, bulk) ==
  CASE folder = "INBOX"   -> {"ARCHIVE", "TRASH"} \cup (IF bulk THEN {} ELSE {"INBOX"})
    [] folder = "ARCHIVE" -> {"INBOX", "ARCHIVE"}
    [] folder = "TRASH"   -> Folders \ {"DRAFTS"}

\* One message, or all or none of several.
MoveRead(r, u, moved, folder, bulk) ==
  /\ \A m \in moved : item[u][m] \in Sources(folder, bulk)
  /\ Begin(r, [Idle EXCEPT !.pc = "move", !.user = {u}, !.messages = moved, !.folder = folder])
  /\ UNCHANGED files

Move(r) ==
  /\ At(r, "move")
  /\ LET u == Holder(r) IN
     item' = [item EXCEPT ![u] = [m \in Messages |->
                IF m \in req[r].messages /\ @[m] # Absent THEN req[r].folder ELSE @[m]]]
  /\ Answer(r)
  /\ UNCHANGED <<status, row, files, box, fuel>>
  /\ Watch({r})

\* Mutant of Purgeable: the folder is not part of the query.
PurgeableAny(u, m) == item[u][m] \notin {Absent, "DRAFTS"}
Purgeable(u, m) == item[u][m] = "TRASH"

\* permanentlyDelete.
PurgeRead(r, u, m) ==
  /\ Purgeable(u, m)
  /\ Begin(r, [Idle EXCEPT !.pc = "purge", !.user = {u}, !.messages = {m}])
  /\ UNCHANGED files

Purge(r) ==
  /\ At(r, "purge")
  /\ LET u == Holder(r) IN
     item' = [item EXCEPT ![u] = [m \in Messages |->
                IF m \in req[r].messages THEN Absent ELSE @[m]]]
  /\ Answer(r)
  /\ UNCHANGED <<status, row, files, box, fuel>>
  /\ Watch({r})

EmptyTrash(u) ==
  /\ \E m \in Messages : item[u][m] = "TRASH"
  /\ item' = [item EXCEPT ![u] = [m \in Messages |-> IF @[m] = "TRASH" THEN Absent ELSE @[m]]]
  /\ UNCHANGED <<status, row, files, box, req, fuel>>
  /\ Watch({})

-----------------------------------------------------------------------------
(* Attachments and drafts                                                  *)

Fits(u) == box[u].used + 1 <= box[u].limit

\* Mutant of Open: the status is not part of the query.
OpenByFolder(m) == item[Author[m]][m] \notin {Absent, "QUARANTINE"}
Open(m) == Editable(m)

\* save: every file has a random name.
Unused(a) == row[a] = New /\ a \notin files /\ \A q \in Requests : a \notin req[q].files

\* addAttachment reads the draft and the quota and writes the file ...
AttachRead(r, m, a) ==
  /\ Open(m) /\ Fits(Author[m])
  /\ Unused(a)
  /\ Begin(r, [Idle EXCEPT !.pc = "attach", !.user = {Author[m]}, !.messages = {m},
                           !.files = {a}, !.box = box[Author[m]].gen])
  /\ files' = files \cup {a}

\* ... then takes the bytes if they still fit, and makes the row if the message still exists;
\* else the file is deleted.
Attach(r) ==
  /\ At(r, "attach")
  /\ LET u == Holder(r)
         m == CHOOSE m \in req[r].messages : TRUE
         a == CHOOSE a \in req[r].files : TRUE
     IN  IF box[u].gen = req[r].box /\ Fits(u) /\ status[m] # "gone"
         THEN /\ row' = [row EXCEPT ![a] = m]
              /\ box' = [box EXCEPT ![u].used = @ + 1]
              /\ files' = files
         ELSE /\ row' = [row EXCEPT ![a] = Past]
              /\ files' = files \ {a}
              /\ UNCHANGED box
  /\ Answer(r)
  /\ UNCHANGED <<status, item, fuel>>
  /\ Watch({r})

\* save fails, and leaves a part of the file under a name that nobody knows.
SaveFails(m, a) ==
  /\ Open(m) /\ Fits(Author[m])
  /\ Unused(a)
  /\ left > 0 /\ faults > 0
  /\ left' = left - 1 /\ faults' = faults - 1
  /\ files' = files \cup {a}
  /\ UNCHANGED <<content, box, req, late, crashes>>

\* The transaction is rolled back, or is committed and its answer is lost: to addAttachment both
\* are an error, and it deletes the file, which may fail as well.
AttachFails(r) ==
  /\ At(r, "attach") /\ faults > 0
  /\ faults' = faults - 1
  /\ LET u == Holder(r)
         m == CHOOSE m \in req[r].messages : TRUE
         a == CHOOSE a \in req[r].files : TRUE
     IN  /\ \/ /\ row' = [row EXCEPT ![a] = Past]
               /\ UNCHANGED box
            \/ /\ box[u].gen = req[r].box /\ Fits(u) /\ status[m] # "gone"
               /\ row' = [row EXCEPT ![a] = m]
               /\ box' = [box EXCEPT ![u].used = @ + 1]
         /\ files' \in {files, files \ {a}}
  /\ Answer(r)
  /\ UNCHANGED <<status, item, left, crashes>>
  /\ Watch({r})

\* deleteAttachment.
DetachRead(r, m, a) ==
  /\ row[a] = m /\ Editable(m)
  /\ Begin(r, [Idle EXCEPT !.pc = "detach", !.user = {Author[m]}, !.messages = {m},
                           !.files = {a}, !.box = box[Author[m]].gen])
  /\ UNCHANGED files

\* The delete by id fails when the row is gone, the update when the mailbox is.
Detach(r) ==
  /\ At(r, "detach")
  /\ LET u == Holder(r) IN
     IF req[r].files \cap Of(CHOOSE m \in req[r].messages : TRUE) # {} /\ box[u].gen = req[r].box
     THEN /\ row' = [a \in Attachments |-> IF a \in req[r].files THEN Past ELSE row[a]]
          /\ box' = [box EXCEPT ![u].used = @ - 1]
          /\ req' = [req EXCEPT ![r].pc = "unlink"]
     ELSE /\ Answer(r)
          /\ UNCHANGED <<row, box>>
  /\ UNCHANGED <<status, item, files, fuel>>
  /\ Watch({r})

\* The message, and with it its items and the rows of its attachments.
Erase(gone) ==
  /\ status' = [m \in Messages |-> IF m \in gone THEN "gone" ELSE status[m]]
  /\ item' = [u \in Members |-> [m \in Messages |-> IF m \in gone THEN Absent ELSE item[u][m]]]
  /\ row' = [a \in Attachments |-> IF row[a] \in gone THEN Past ELSE row[a]]

\* deleteDraft reads the attachments with the draft.
DiscardRead(r, m) ==
  /\ Editable(m)
  /\ Begin(r, [Idle EXCEPT !.pc = "discard", !.user = {Author[m]}, !.messages = {m},
                           !.files = Of(m), !.box = box[Author[m]].gen])
  /\ UNCHANGED files

\* Mutant of Freed: the bytes stay taken.
FreedNot(r) == 0
Freed(r) == Cardinality(req[r].files)

Discard(r) ==
  /\ At(r, "discard")
  /\ LET u == Holder(r) IN
     IF /\ \A m \in req[r].messages : status[m] # "gone"
        /\ req[r].files # {} => box[u].gen = req[r].box
     THEN /\ Erase(req[r].messages)
          /\ box' = [box EXCEPT ![u].used = @ - Freed(r)]
          /\ req' = [req EXCEPT ![r].pc = "unlink"]
     ELSE /\ Answer(r)
          /\ UNCHANGED <<content, box>>
  /\ UNCHANGED <<files, fuel>>
  /\ Watch({r})

\* Mutant of Kept: the files of a deleted draft are left behind.
KeptAll(r) == files
Kept(r) == files \ req[r].files

\* After the transaction: the files that were listed before it.
Unlink(r) ==
  /\ At(r, "unlink")
  /\ files' = Kept(r)
  /\ Answer(r)
  /\ UNCHANGED <<content, box, fuel>>
  /\ Watch({r})

\* Some cannot be deleted; or none is, the answer to the commit being lost.
UnlinkFails(r) ==
  /\ At(r, "unlink") /\ faults > 0
  /\ faults' = faults - 1
  /\ \E kept \in SUBSET req[r].files : files' = (files \ req[r].files) \cup (files \cap kept)
  /\ Answer(r)
  /\ UNCHANGED <<content, box, left, crashes>>
  /\ Watch({r})

-----------------------------------------------------------------------------
(* Administrators                                                          *)

\* RetentionService.execute: the messages that the newest active policy lets go, of one author
\* at a time.
RetainRead(r, u, old) ==
  /\ \A m \in old : status[m] = "SENT" /\ Author[m] = u
  /\ Begin(r, [Idle EXCEPT !.pc = "retain", !.user = {u}, !.messages = old,
                           !.files = UNION {Of(m) : m \in old}, !.box = box[u].gen])
  /\ UNCHANGED files

Retain(r) ==
  /\ At(r, "retain")
  /\ Erase(req[r].messages)
  /\ LET u == Holder(r) IN
     box' = IF box[u].gen = req[r].box
            THEN [box EXCEPT ![u].used = IF @ > Freed(r) THEN @ - Freed(r) ELSE 0] ELSE box
  /\ req' = [req EXCEPT ![r].pc = "unlink"]
  /\ UNCHANGED <<files, fuel>>
  /\ Watch({r})

\* adminUpdateMailbox compares the new limit with what is used, then writes it.
LimitRead(r, u, limit) ==
  /\ limit >= box[u].used /\ limit # box[u].limit
  /\ Begin(r, [Idle EXCEPT !.pc = "limit", !.user = {u}, !.limit = limit, !.box = box[u].gen])
  /\ UNCHANGED files

Limit(r) ==
  /\ At(r, "limit")
  /\ LET u == Holder(r) IN
     box' = IF box[u].gen = req[r].box
            THEN [box EXCEPT ![u].limit = req[r].limit] ELSE box
  /\ Answer(r)
  /\ UNCHANGED <<content, files, fuel>>
  /\ Watch({r})

\* adminDeleteMailbox counts the items, then deletes the mailbox with all of them; the next
\* request of the member makes another one.
DropRead(r, u) ==
  /\ \A m \in Messages : item[u][m] = Absent
  /\ Begin(r, [Idle EXCEPT !.pc = "drop", !.user = {u}, !.box = box[u].gen])
  /\ UNCHANGED files

Drop(r) ==
  /\ At(r, "drop")
  /\ LET u == Holder(r) IN
     IF box[u].gen = req[r].box
     THEN /\ item' = [item EXCEPT ![u] = [m \in Messages |-> Absent]]
          /\ box' = [box EXCEPT ![u] = [gen |-> @.gen + 1, used |-> 0, limit |-> FirstLimit]]
     ELSE UNCHANGED <<item, box>>
  /\ Answer(r)
  /\ UNCHANGED <<status, row, files, fuel>>
  /\ Watch({r})

\* A transaction is rolled back, and the request answered with an error.
RolledBack(r) ==
  /\ req[r].pc \notin {"idle", "attach", "unlink"} /\ faults > 0
  /\ faults' = faults - 1
  /\ Answer(r)
  /\ UNCHANGED <<content, files, box, left, crashes>>
  /\ Watch({r})

\* The server dies: a request is never answered.
Crash(r) ==
  /\ req[r] # Idle /\ crashes > 0
  /\ crashes' = crashes - 1
  /\ row' = [a \in Attachments |-> IF At(r, "attach") /\ a \in req[r].files THEN Past ELSE row[a]]
  /\ Answer(r)
  /\ UNCHANGED <<status, item, files, box, left, faults>>
  /\ Watch({r})

-----------------------------------------------------------------------------
Init ==
  /\ status = [m \in Messages |-> "none"]
  /\ item = [u \in Members |-> [m \in Messages |-> Absent]]
  /\ row = [a \in Attachments |-> New]
  /\ files = {}
  /\ box = [u \in Members |-> [gen |-> 1, used |-> 0, limit |-> FirstLimit]]
  /\ req = [r \in Requests |-> Idle]
  /\ late = {}
  /\ left = MaxRequests /\ crashes = MaxCrash /\ faults = MaxFault

MessageStep ==
  \/ \E m \in Messages : CreateDraft(m) \/ Schedule(m) \/ Verdict(m)
  \/ \E m \in Messages, to \in SUBSET Members : Deliver(m, to)
  \/ \E u \in Members : EmptyTrash(u)

ReadStep(r) ==
  \/ \E u \in Members, folder \in {"INBOX", "ARCHIVE", "TRASH"} :
       \/ \E m \in Messages : MoveRead(r, u, {m}, folder, FALSE)
       \/ \E moved \in (SUBSET Messages) \ {{}} : MoveRead(r, u, moved, folder, TRUE)
  \/ \E u \in Members, m \in Messages : PurgeRead(r, u, m)
  \/ \E m \in Messages, a \in Attachments :
       AttachRead(r, m, a) \/ DetachRead(r, m, a) \/ SaveFails(m, a)
  \/ \E m \in Messages : DiscardRead(r, m) \/ SendRead(r, m)
  \/ \E u \in Members, old \in (SUBSET Messages) \ {{}} : RetainRead(r, u, old)
  \/ \E u \in Members, limit \in Limits : LimitRead(r, u, limit)
  \/ \E u \in Members : DropRead(r, u)

WriteStep(r) ==
  \/ \E to \in SUBSET Members : Send(r, to)
  \/ Move(r) \/ Purge(r) \/ Attach(r) \/ Detach(r) \/ Discard(r) \/ Unlink(r)
  \/ Retain(r) \/ Limit(r) \/ Drop(r)
  \/ AttachFails(r) \/ UnlinkFails(r) \/ RolledBack(r) \/ Crash(r)

Next == MessageStep \/ \E r \in Requests : ReadStep(r) \/ WriteStep(r)

Spec == Init /\ [][Next]_vars

-----------------------------------------------------------------------------
(* Properties                                                              *)

Bytes(u) == Cardinality({a \in Attachments : row[a] \in Messages /\ Author[row[a]] = u})
Drift(u) == box[u].used - Bytes(u)

Acts(r) == req'[r] # req[r]
ALateOneActs == \E r \in late : Acts(r)

\* The types, and that a request holds the files that it is going to link or to delete.
TypeOK ==
  /\ status \in [Messages -> Statuses]
  /\ item \in [Members -> [Messages -> Folders \cup {Absent}]]
  /\ row \in [Attachments -> Messages \cup {New, Past}]
  /\ files \subseteq Attachments
  /\ box \in [Members -> [gen : Nat, used : Int, limit : Limits]]
  /\ late \subseteq Requests /\ left \in Nat /\ crashes \in Nat /\ faults \in Nat
  /\ \A r \in Requests : At(r, "attach") => req[r].files \subseteq files

\* What a mailbox is said to use is what its member's attachments take, and no more than its
\* limit: only a request that was overtaken, or the deletion of the mailbox, makes a
\* difference, and only a limit set by one that was overtaken is exceeded.  Retention does
\* not make it less than nothing.
StorageAccounted ==
  [][\A u \in Members :
       /\ \/ Drift(u)' = Drift(u) \/ Drift(u)' \in Drift(u)..0
          \/ ALateOneActs \/ \E r \in Requests : At(r, "drop") /\ Acts(r)
       /\ box[u].used <= box[u].limit =>
            \/ box'[u].used <= box'[u].limit
            \/ \E r \in late : Acts(r) /\ At(r, "limit")]_vars

Linked == {a \in Attachments : row[a] \in Messages}
Held == UNION {req[r].files : r \in Requests}

Strays == files \ (Linked \cup Held)

\* An attachment loses its file only when its upload is taken to have failed and has not; a
\* file without one is in the hands of a request, unless the server died, the request was
\* overtaken, or a transaction or a file operation failed.
FilesHaveRows ==
  [][/\ \/ (Linked \ files)' \subseteq Linked \ files
        \/ \E r \in Requests : At(r, "attach") /\ Acts(r) /\ faults' # faults
     /\ \/ Strays' \subseteq Strays
        \/ ALateOneActs \/ crashes' # crashes \/ faults' # faults]_vars

\* What a member has in a folder leaves the mailbox only from TRASH or with the message, what
\* is in quarantine is only thrown away or, when it is a draft, sent, and what is scheduled is
\* not deleted: unless the request was overtaken.
ItemsKept ==
  [][\/ ALateOneActs
     \/ \A u \in Members, m \in Messages :
          /\ item'[u][m] = Absent /\ status'[m] # "gone" => item[u][m] \in {Absent, "TRASH"}
          /\ item[u][m] = "QUARANTINE" /\ status'[m] = status[m] =>
               item'[u][m] \in {"QUARANTINE", "TRASH", Absent}
          /\ status[m] = "SCHEDULED" => status'[m] # "gone"]_vars

\* A message keeps the attachments with which it was sent.
SentUnchanged ==
  [][\/ ALateOneActs
     \/ \A m \in Messages :
          status[m] \in {"SCHEDULED", "SENT"} /\ status'[m] # "gone" => Of(m)' = Of(m)]_vars

=============================================================================
