------------------------- MODULE MailboxItemsProofs -------------------------
(***************************************************************************)
(* Proofs about MailboxItems, for every number of members, messages,       *)
(* attachments and requests in progress: the types; that what a member has *)
(* in a folder and the attachments of a sent message stay, that attachments *)
(* have their files and files their attachments, and that a mailbox's bytes *)
(* are those of its attachments, unless a request was overtaken between    *)
(* its read and its write.                                                 *)
(***************************************************************************)
EXTENDS MailboxItems, FiniteSetTheorems, TLAPS

USE MailboxAssumption

-----------------------------------------------------------------------------
(* The invariant                                                           *)

Pcs == {"idle", "send", "move", "purge", "attach", "detach", "discard", "unlink", "retain",
        "limit", "drop"}
RequestType ==
  [pc : Pcs, user : SUBSET Members, messages : SUBSET Messages, folder : Folders \cup {Absent},
   files : SUBSET Attachments, box : Nat, limit : Limits \cup {0}]

\* What a request of each kind is about.
Shape(r) ==
  \/ req[r] = Idle
  \/ /\ req[r].pc \in {"move", "purge", "limit", "drop"}
     /\ \E u \in Members : req[r].user = {u}
     /\ req[r].files = {}
     /\ (At(r, "limit") => req[r].limit \in Limits) /\ (At(r, "move") => req[r].folder # Absent)
  \/ At(r, "send") /\ req[r].files = {} /\ \E m \in Messages : req[r].messages = {m}
  \/ /\ req[r].pc \in {"attach", "detach"}
     /\ \E m \in Messages, a \in Attachments :
          req[r].user = {Author[m]} /\ req[r].messages = {m} /\ req[r].files = {a}
  \/ /\ At(r, "discard")
     /\ \E m \in Messages : req[r].user = {Author[m]} /\ req[r].messages = {m}
  \/ /\ At(r, "retain") /\ req[r].messages # {}
     /\ \E u \in Members : req[r].user = {u} /\ \A m \in req[r].messages : Author[m] = u
  \/ At(r, "unlink")

\* A file is written before its row and deleted after it: an upload's file is nobody
\* else's, what a request is going to delete belongs to its messages or to nothing.
InHand(r) ==
  \A a \in req[r].files :
    /\ At(r, "attach") => row[a] = New /\ a \in files
    /\ req[r].pc \in {"detach", "discard", "retain"} => row[a] \in req[r].messages \cup {Past}
    /\ At(r, "unlink") => row[a] = Past
Apart ==
  \A q, r \in Requests :
    At(q, "attach") /\ At(r, "attach") /\ q # r => req[q].files \cap req[r].files = {}
FilesInv == Apart /\ \A r \in Requests : InHand(r)

\* What a request that was not overtaken has read is still so.
Ready(r) ==
  /\ At(r, "limit") => \A u \in req[r].user : box[u].used <= req[r].limit
  /\ At(r, "drop") => \A u \in req[r].user, m \in Messages : item[u][m] = Absent
  /\ At(r, "move") => \A u \in req[r].user, m \in req[r].messages :
                         item[u][m] = "QUARANTINE" => req[r].folder = "TRASH"
  /\ At(r, "purge") => \A u \in req[r].user, m \in req[r].messages : item[u][m] = "TRASH"
  /\ req[r].pc \in {"send", "attach", "detach", "discard"} =>
       \A m \in req[r].messages : status[m] = "DRAFT"
  /\ At(r, "retain") => \A m \in req[r].messages : status[m] = "SENT"
  /\ req[r].pc \in {"detach", "discard", "retain"} =>
       \A u \in req[r].user : box[u].gen = req[r].box
  /\ At(r, "detach") => \A a \in req[r].files : row[a] \in req[r].messages
  /\ req[r].pc \in {"discard", "retain"} =>
       \A a \in Attachments : a \in req[r].files <=> row[a] \in req[r].messages

Types == TypeOK /\ req \in [Requests -> RequestType]
Calls == \A r \in Requests : Shape(r) /\ (r \in late => req[r] # Idle) /\ (r \notin late => Ready(r))
MailboxInv == Types /\ FilesInv /\ Calls

-----------------------------------------------------------------------------
(* Types                                                                   *)

LEMMA IdleType == Idle \in RequestType /\ Idle.pc = "idle" /\ Idle.files = {}
  BY DEF Idle, RequestType, Pcs

\* A request that begins.
LEMMA BeginTypes ==
  ASSUME Types, NEW r \in Requests, NEW q \in RequestType, Begin(r, q),
         files' \subseteq Attachments, q.pc = "attach" => q.files \subseteq files',
         files \subseteq files'
  PROVE  Types'
<1>1. req' \in [Requests -> RequestType] /\ left' \in Nat
  BY DEF Begin, Types, TypeOK
<1>2. ASSUME NEW p \in Requests, req'[p].pc = "attach" PROVE req'[p].files \subseteq files'
  BY <1>2 DEF Begin, Types, TypeOK, At
<1> QED
  BY <1>1, <1>2 DEF Begin, Types, TypeOK, At, content

\* A request that writes, and a step of nobody's.
LEMMA WriteTypes ==
  ASSUME Types, NEW r \in Requests, NEW q \in RequestType, q.pc # "attach",
         req' = [req EXCEPT ![r] = q], NEW actors, Watch(actors),
         status' \in [Messages -> Statuses],
         item' \in [Members -> [Messages -> Folders \cup {Absent}]],
         row' \in [Attachments -> Messages \cup {New, Past}],
         box' \in [Members -> [gen : Nat, used : Int, limit : Limits]],
         files' \subseteq Attachments, left' \in Nat, crashes' \in Nat, faults' \in Nat,
         \A p \in Requests : p # r /\ At(p, "attach") => req[p].files \subseteq files'
  PROVE  Types'
<1>1. req' \in [Requests -> RequestType]
  BY DEF Types
<1>2. ASSUME NEW p \in Requests, req'[p].pc = "attach" PROVE req'[p].files \subseteq files'
  BY <1>2 DEF Types, At
<1>3. late' \subseteq Requests
  BY DEF Watch
<1> QED
  BY <1>1, <1>2, <1>3 DEF Types, TypeOK, At

LEMMA MessageTypes ==
  ASSUME Types, UNCHANGED <<row, files, box, req, fuel>>, Watch({}),
         status' \in [Messages -> Statuses],
         item' \in [Members -> [Messages -> Folders \cup {Absent}]]
  PROVE  Types'
<1>1. late' \subseteq Requests
  BY DEF Watch
<1> QED
  BY <1>1 DEF Types, TypeOK, At, fuel

-----------------------------------------------------------------------------
(* A request that is not overtaken                                         *)

\* A step of another: it leaves the request alone, and what it has read unless that is noted.
Undisturbed(p) ==
  /\ req'[p] = req[p]
  /\ p \notin late' => req[p] = Idle \/ (p \notin late /\ Seen(p)' = Seen(p))

LEMMA WatchKeeps ==
  ASSUME NEW actors, Watch(actors), NEW p \in Requests, p \notin actors, req'[p] = req[p]
  PROVE  Undisturbed(p)
  BY DEF Watch, Undisturbed

LEMMA BeginKeeps ==
  ASSUME Types, NEW r \in Requests, NEW q, Begin(r, q), NEW p \in Requests, p # r
  PROVE  Undisturbed(p)
<1>1. req'[p] = req[p] /\ late' = late /\ UNCHANGED <<status, item, row, box>>
  BY DEF Begin, content, Types
<1>2. Seen(p)' = Seen(p)
  BY <1>1 DEF Seen, At, Of
<1> QED
  BY <1>1, <1>2 DEF Undisturbed

\* What is read of messages, of items and of the mailbox.
ReadMessages(p) ==
  {<<m, status[m], Of(m), {box[u].gen : u \in req[p].user}>> : m \in req[p].messages}
ReadItems(p) == {<<m, {item[u][m] : u \in req[p].user}>> : m \in req[p].messages}

LEMMA SeenCases ==
  ASSUME NEW p \in Requests
  PROVE  /\ At(p, "limit") => Seen(p) = {<<u, box[u]>> : u \in req[p].user}
         /\ At(p, "drop") => Seen(p) = {<<u, item[u]>> : u \in req[p].user}
         /\ req[p].pc \in {"move", "purge"} => Seen(p) = ReadItems(p)
         /\ At(p, "send") => Seen(p) = {<<m, status[m]>> : m \in req[p].messages}
         /\ req[p].pc \in {"attach", "detach", "discard", "retain"} => Seen(p) = ReadMessages(p)
<1>1. At(p, "limit") => Seen(p) = {<<u, box[u]>> : u \in req[p].user}
  BY DEF Seen, At
<1>2. At(p, "drop") => Seen(p) = {<<u, item[u]>> : u \in req[p].user}
  BY DEF Seen, At
<1>3. req[p].pc \in {"move", "purge"} => Seen(p) = ReadItems(p)
  BY DEF Seen, At, ReadItems
<1>4. At(p, "send") => Seen(p) = {<<m, status[m]>> : m \in req[p].messages}
  BY DEF Seen, At
<1>5. req[p].pc \in {"attach", "detach", "discard", "retain"} => Seen(p) = ReadMessages(p)
  BY DEF Seen, At, ReadMessages
<1> QED
  BY <1>1, <1>2, <1>3, <1>4, <1>5

LEMMA SeenCasesNext ==
  ASSUME NEW p \in Requests, req'[p] = req[p]
  PROVE  /\ At(p, "limit") => Seen(p)' = {<<u, box'[u]>> : u \in req[p].user}
         /\ At(p, "drop") => Seen(p)' = {<<u, item'[u]>> : u \in req[p].user}
         /\ req[p].pc \in {"move", "purge"} => Seen(p)' = ReadItems(p)'
         /\ At(p, "send") => Seen(p)' = {<<m, status'[m]>> : m \in req[p].messages}
         /\ req[p].pc \in {"attach", "detach", "discard", "retain"} => Seen(p)' = ReadMessages(p)'
<1>1. At(p, "limit") => Seen(p)' = {<<u, box'[u]>> : u \in req[p].user}
  BY DEF Seen, At
<1>2. At(p, "drop") => Seen(p)' = {<<u, item'[u]>> : u \in req[p].user}
  BY DEF Seen, At
<1>3. req[p].pc \in {"move", "purge"} => Seen(p)' = ReadItems(p)'
  BY DEF Seen, At, ReadItems
<1>4. At(p, "send") => Seen(p)' = {<<m, status'[m]>> : m \in req[p].messages}
  BY DEF Seen, At
<1>5. req[p].pc \in {"attach", "detach", "discard", "retain"} => Seen(p)' = ReadMessages(p)'
  BY DEF Seen, At, ReadMessages
<1> QED
  BY <1>1, <1>2, <1>3, <1>4, <1>5

LEMMA SeenMessages ==
  ASSUME NEW p \in Requests, req'[p] = req[p], Seen(p)' = Seen(p),
         req[p].pc \in {"attach", "detach", "discard", "retain"},
         NEW m \in req[p].messages
  PROVE  /\ status'[m] = status[m] /\ Of(m)' = Of(m)
         /\ {box'[u].gen : u \in req[p].user} = {box[u].gen : u \in req[p].user}
<1>1. ReadMessages(p)' = ReadMessages(p)
  BY SeenCases, SeenCasesNext
<1>2. <<m, status'[m], Of(m)', {box'[u].gen : u \in req[p].user}>> \in ReadMessages(p)'
  BY DEF ReadMessages
<1>3. \E n \in req[p].messages :
        <<m, status'[m], Of(m)', {box'[u].gen : u \in req[p].user}>>
          = <<n, status[n], Of(n), {box[u].gen : u \in req[p].user}>>
  BY <1>1, <1>2 DEF ReadMessages
<1> QED
  BY <1>3

LEMMA SeenStatus ==
  ASSUME NEW p \in Requests, req'[p] = req[p], Seen(p)' = Seen(p), At(p, "send"),
         NEW m \in req[p].messages
  PROVE  status'[m] = status[m]
<1>1. {<<n, status'[n]>> : n \in req[p].messages} = {<<n, status[n]>> : n \in req[p].messages}
  BY SeenCases, SeenCasesNext
<1>2. <<m, status'[m]>> \in {<<n, status[n]>> : n \in req[p].messages}
  BY <1>1
<1> QED
  BY <1>2

LEMMA SeenItems ==
  ASSUME NEW p \in Requests, req'[p] = req[p], Seen(p)' = Seen(p), req[p].pc \in {"move", "purge"},
         NEW m \in req[p].messages
  PROVE  {item'[u][m] : u \in req[p].user} = {item[u][m] : u \in req[p].user}
<1>1. ReadItems(p)' = ReadItems(p)
  BY SeenCases, SeenCasesNext
<1>2. <<m, {item'[u][m] : u \in req[p].user}>> \in ReadItems(p)'
  BY DEF ReadItems
<1>3. \E n \in req[p].messages :
        <<m, {item'[u][m] : u \in req[p].user}>> = <<n, {item[u][n] : u \in req[p].user}>>
  BY <1>1, <1>2 DEF ReadItems
<1> QED
  BY <1>3

LEMMA SeenBox ==
  ASSUME NEW p \in Requests, req'[p] = req[p], Seen(p)' = Seen(p),
         NEW u \in req[p].user
  PROVE  /\ At(p, "limit") => box'[u] = box[u]
         /\ At(p, "drop") => item'[u] = item[u]
<1>1. ASSUME At(p, "limit") PROVE box'[u] = box[u]
  <2>1. {<<v, box'[v]>> : v \in req[p].user} = {<<v, box[v]>> : v \in req[p].user}
    BY <1>1, SeenCases, SeenCasesNext
  <2>2. <<u, box'[u]>> \in {<<v, box'[v]>> : v \in req[p].user}
    OBVIOUS
  <2>3. \E v \in req[p].user : <<u, box'[u]>> = <<v, box[v]>>
    BY <2>1, <2>2
  <2> QED
    BY <2>3
<1>2. ASSUME At(p, "drop") PROVE item'[u] = item[u]
  <2>1. {<<v, item'[v]>> : v \in req[p].user} = {<<v, item[v]>> : v \in req[p].user}
    BY <1>2, SeenCases, SeenCasesNext
  <2>2. <<u, item'[u]>> \in {<<v, item'[v]>> : v \in req[p].user}
    OBVIOUS
  <2>3. \E v \in req[p].user : <<u, item'[u]>> = <<v, item[v]>>
    BY <2>1, <2>2
  <2> QED
    BY <2>3
<1> QED
  BY <1>1, <1>2

LEMMA ReadyStays ==
  ASSUME Types, NEW p \in Requests, Shape(p), p \notin late => Ready(p), p \in late => req[p] # Idle,
         Undisturbed(p)
  PROVE  Shape(p)' /\ (p \notin late' => Ready(p)')
<1>1. Shape(p)'
  BY DEF Shape, Undisturbed, At
<1>2. ASSUME p \notin late', req[p] = Idle PROVE Ready(p)'
  BY <1>2, IdleType DEF Undisturbed, Ready, At
<1>3. ASSUME p \notin late', req[p] # Idle PROVE Ready(p)'
  <2>1. req'[p] = req[p] /\ Seen(p)' = Seen(p) /\ Ready(p)
    BY <1>3 DEF Undisturbed
  <2>2. CASE req[p].pc \in {"attach", "detach", "discard", "retain"}
    <3>1. \A m \in req[p].messages : status'[m] = status[m] /\ Of(m)' = Of(m)
      BY <2>1, <2>2, SeenMessages
    <3>2. \A a \in Attachments : row'[a] \in req[p].messages <=> row[a] \in req[p].messages
      BY <3>1 DEF Of
    <3>3. req[p].files \subseteq Attachments
      BY DEF Types, RequestType
    <3>4. ASSUME NEW u \in req[p].user PROVE box'[u].gen = box[u].gen
      <4>1. req[p].user = {u} /\ req[p].messages # {}
        BY <3>4, <2>2, <1>3 DEF Shape, At
      <4>2. {box'[v].gen : v \in {u}} = {box[v].gen : v \in {u}}
        BY <4>1, <2>1, <2>2, SeenMessages
      <4> QED
        BY <4>2
    <3> QED
      BY <2>1, <2>2, <3>1, <3>2, <3>3, <3>4 DEF Ready, At
  <2>3. CASE At(p, "send")
    BY <2>1, <2>3, SeenStatus DEF Ready, At
  <2>4. CASE req[p].pc \in {"move", "purge"}
    <3>1. ASSUME NEW u \in req[p].user, NEW m \in req[p].messages PROVE item'[u][m] = item[u][m]
      <4>1. req[p].user = {u}
        BY <2>4, <1>3 DEF Shape, At
      <4>2. {item'[v][m] : v \in {u}} = {item[v][m] : v \in {u}}
        BY <4>1, <2>1, <2>4, SeenItems
      <4> QED
        BY <4>2
    <3> QED
      BY <2>1, <2>4, <3>1 DEF Ready, At
  <2>5. CASE req[p].pc \in {"limit", "drop"}
    <3>1. PICK u \in Members : req[p].user = {u}
      BY <2>5, <1>3 DEF Shape, At
    <3>2. (At(p, "limit") => box'[u] = box[u]) /\ (At(p, "drop") => item'[u] = item[u])
      BY <2>1, <3>1, SeenBox
    <3> QED
      BY <2>1, <2>5, <3>1, <3>2 DEF Ready, At
  <2>6. CASE req[p].pc \in {"idle", "unlink"}
    BY <2>1, <2>6 DEF Ready, At
  <2>7. req[p].pc \in Pcs
    BY DEF Types, RequestType
  <2> QED
    BY <2>2, <2>3, <2>4, <2>5, <2>6, <2>7 DEF Pcs, At
<1> QED
  BY <1>1, <1>2, <1>3

-----------------------------------------------------------------------------
(* The steps keep the invariant                                            *)

\* A step of nobody's request.
LEMMA MessageInv ==
  ASSUME MailboxInv, UNCHANGED <<row, files, box, req, fuel>>, Watch({}),
         status' \in [Messages -> Statuses],
         item' \in [Members -> [Messages -> Folders \cup {Absent}]]
  PROVE  MailboxInv'
<1>1. Types'
  BY MessageTypes DEF MailboxInv
<1>2. FilesInv'
  BY DEF MailboxInv, FilesInv, Apart, InHand, At
<1>3. ASSUME NEW r \in Requests
      PROVE  Shape(r)' /\ (r \in late' => req'[r] # Idle) /\ (r \notin late' => Ready(r)')
  <2>1. Undisturbed(r)
    BY WatchKeeps
  <2>2. r \in late' => req'[r] # Idle
    BY DEF Watch
  <2> QED
    BY <2>1, <2>2, ReadyStays DEF MailboxInv, Calls
<1> QED
  BY <1>1, <1>2, <1>3 DEF MailboxInv, Calls

LEMMA MessageStepInv ==
  ASSUME MailboxInv, MessageStep PROVE MailboxInv'
<1> USE DEF MailboxInv, Types, TypeOK
<1>1. ASSUME NEW m \in Messages, CreateDraft(m) PROVE MailboxInv'
  <2>1. Author[m] \in Members
    OBVIOUS
  <2>2. item' \in [Members -> [Messages -> Folders \cup {Absent}]]
    BY <1>1, <2>1 DEF CreateDraft, Folders
  <2>3. status' \in [Messages -> Statuses]
    BY <1>1 DEF CreateDraft, Statuses
  <2> QED
    BY <1>1, <2>2, <2>3, MessageInv DEF CreateDraft
<1>2. ASSUME NEW m \in Messages, Schedule(m) PROVE MailboxInv'
  <2>1. status' \in [Messages -> Statuses]
    BY <1>2 DEF Schedule, Statuses
  <2> QED
    BY <1>2, <2>1, MessageInv DEF Schedule
<1>3. ASSUME NEW m \in Messages, Verdict(m) PROVE MailboxInv'
  <2>1. item' \in [Members -> [Messages -> Folders \cup {Absent}]]
    BY <1>3 DEF Verdict, Folders
  <2> QED
    BY <1>3, <2>1, MessageInv DEF Verdict
<1>4. ASSUME NEW m \in Messages, NEW to \in SUBSET Members, Deliver(m, to) PROVE MailboxInv'
  <2>1. item' \in [Members -> [Messages -> Folders \cup {Absent}]]
    BY <1>4 DEF Deliver, Delivery, Folders
  <2>2. status' \in [Messages -> Statuses]
    BY <1>4 DEF Deliver, Delivery, Statuses
  <2> QED
    BY <1>4, <2>1, <2>2, MessageInv DEF Deliver
<1>5. ASSUME NEW u \in Members, EmptyTrash(u) PROVE MailboxInv'
  <2>1. item' \in [Members -> [Messages -> Folders \cup {Absent}]]
    BY <1>5 DEF EmptyTrash
  <2> QED
    BY <1>5, <2>1, MessageInv DEF EmptyTrash
<1> QED
  BY <1>1, <1>2, <1>3, <1>4, <1>5 DEF MessageStep

\* A request that begins has just read what it holds.
LEMMA BeginInv ==
  ASSUME MailboxInv, NEW r \in Requests, NEW q \in RequestType, Begin(r, q), q # Idle,
         files' \subseteq Attachments, files \subseteq files',
         q.pc = "attach" => \A p \in Requests : q.files \cap req[p].files = {},
         Shape(r)', InHand(r)', Ready(r)'
  PROVE  MailboxInv'
<1>1. req[r] = Idle /\ req'[r] = q /\ row' = row /\ late' = late
  BY DEF Begin, content, MailboxInv, Types
<1>2. \A p \in Requests : p # r => req'[p] = req[p]
  BY DEF Begin, MailboxInv, Types
<1>3. q.pc = "attach" => q.files \subseteq files'
  BY <1>1 DEF InHand, At
<1>4. Types'
  BY <1>3, BeginTypes DEF MailboxInv
<1>5. FilesInv'
  <2>2. ASSUME NEW p \in Requests PROVE InHand(p)'
    <3>1. CASE p = r
      BY <3>1
    <3>2. CASE p # r
      BY <3>2, <1>1, <1>2 DEF MailboxInv, FilesInv, InHand, At
    <3> QED
      BY <3>1, <3>2
  <2>3. Apart'
    BY <1>1, <1>2 DEF MailboxInv, FilesInv, Apart, At
  <2> QED
    BY <2>2, <2>3 DEF FilesInv
<1>6. ASSUME NEW p \in Requests
      PROVE  Shape(p)' /\ (p \in late' => req'[p] # Idle) /\ (p \notin late' => Ready(p)')
  <2>1. CASE p = r
    BY <2>1, <1>1
  <2>2. CASE p # r
    BY <2>2, <1>1, <1>2, BeginKeeps, ReadyStays DEF MailboxInv, Calls
  <2> QED
    BY <2>1, <2>2
<1> QED
  BY <1>4, <1>5, <1>6 DEF MailboxInv, Calls

\* A request that has written, and is answered or only deletes files from now on.
LEMMA WriteCalls ==
  ASSUME MailboxInv, NEW r \in Requests, Watch({r}),
         \A p \in Requests : p # r => req'[p] = req[p],
         req'[r] = Idle \/ req'[r].pc = "unlink"
  PROVE  Calls'
<1>1. ASSUME NEW p \in Requests
      PROVE  Shape(p)' /\ (p \in late' => req'[p] # Idle) /\ (p \notin late' => Ready(p)')
  <2>1. p \in late' => req'[p] # Idle
    BY DEF Watch
  <2>2. CASE p = r
    <3>1. Shape(p)'
      BY <2>2 DEF Shape, At
    <3>2. Ready(p)'
      BY <2>2, IdleType DEF Ready, At
    <3> QED
      BY <2>1, <3>1, <3>2
  <2>3. CASE p # r
    BY <2>1, <2>3, WatchKeeps, ReadyStays DEF MailboxInv, Calls
  <2> QED
    BY <2>2, <2>3
<1> QED
  BY <1>1 DEF Calls

\* An attachment is linked by its upload, or is past; a file goes by its upload, or after its row.
LEMMA WriteFiles ==
  ASSUME MailboxInv, NEW r \in Requests,
         \A p \in Requests : p # r => req'[p] = req[p],
         \/ req'[r] = Idle
         \/ /\ req'[r].pc = "unlink" /\ req'[r].files = req[r].files
            /\ \A a \in req[r].files : row'[a] = Past,
         \A a \in Attachments :
           \/ row'[a] = row[a]
           \/ row'[a] = Past /\ (row[a] \in Messages \/ (At(r, "attach") /\ a \in req[r].files))
           \/ row'[a] \in Messages /\ At(r, "attach") /\ a \in req[r].files,
         files' \subseteq files,
         \A a \in files \ files' : a \in req[r].files /\ req[r].pc \in {"attach", "unlink"}
  PROVE  FilesInv'
<1>2. ASSUME NEW p \in Requests, NEW a \in req'[p].files
      PROVE  /\ At(p, "attach")' => row'[a] = New /\ a \in files'
             /\ req'[p].pc \in {"detach", "discard", "retain"} => row'[a] \in req'[p].messages \cup {Past}
             /\ At(p, "unlink")' => row'[a] = Past
  <2>1. CASE p = r
    BY <2>1, <1>2, IdleType DEF At
  <2>2. CASE p # r
    <3>1. req'[p] = req[p] /\ a \in req[p].files /\ a \in Attachments
      BY <1>2, <2>2 DEF MailboxInv, Types, RequestType
    <3>2. /\ At(p, "attach") => row[a] = New /\ a \in files
          /\ req[p].pc \in {"detach", "discard", "retain"} => row[a] \in req[p].messages \cup {Past}
          /\ At(p, "unlink") => row[a] = Past
      BY <3>1 DEF MailboxInv, FilesInv, InHand
    <3>3. At(r, "attach") /\ a \in req[r].files => row[a] = New
      BY DEF MailboxInv, FilesInv, InHand
    <3>4. At(r, "unlink") /\ a \in req[r].files => row[a] = Past
      BY DEF MailboxInv, FilesInv, InHand
    <3>5. At(r, "attach") /\ At(p, "attach") => a \notin req[r].files
      BY <2>2, <3>1 DEF MailboxInv, FilesInv, Apart
    <3>6. req[p].messages \subseteq Messages /\ New # Past
      BY DEF MailboxInv, Types, RequestType, New, Past
    <3> QED
      BY <3>1, <3>2, <3>3, <3>4, <3>5, <3>6 DEF At
  <2> QED
    BY <2>1, <2>2
<1>3. Apart'
  <2>1. ~At(r, "attach")'
    BY IdleType DEF At
  <2> QED
    BY <2>1 DEF MailboxInv, FilesInv, Apart, At
<1> QED
  BY <1>2, <1>3 DEF FilesInv, InHand

\* What each request reads, when it begins.
LEMMA MoveReadInv ==
  ASSUME MailboxInv, NEW r \in Requests, NEW u \in Members, NEW moved \in SUBSET Messages,
         NEW folder \in {"INBOX", "ARCHIVE", "TRASH"}, NEW bulk,
         MoveRead(r, u, moved, folder, bulk)
  PROVE  MailboxInv'
<1> DEFINE q == [Idle EXCEPT !.pc = "move", !.user = {u}, !.messages = moved, !.folder = folder]
<1>1. /\ q \in RequestType /\ q # Idle
      /\ q.pc = "move" /\ q.user = {u} /\ q.messages = moved /\ q.folder = folder /\ q.files = {}
  BY DEF MailboxInv, Types, TypeOK, Idle, RequestType, Pcs, Folders
<1>2. Begin(r, q) /\ files \subseteq files' /\ files' \subseteq Attachments
  BY DEF MoveRead, MailboxInv, Types, TypeOK
<1>3. req'[r] = q /\ UNCHANGED <<status, item, row, box>>
  BY <1>2 DEF Begin, content, MailboxInv, Types
<1> HIDE DEF q
<1>4. Shape(r)'
  BY <1>1, <1>3 DEF Shape, At, Absent
<1>5. InHand(r)'
  BY <1>1, <1>3 DEF InHand, At
<1>6. \A m \in moved : item[u][m] = "QUARANTINE" => folder = "TRASH"
  <2>1. CASE folder = "INBOX"
    BY <2>1 DEF MoveRead, Sources
  <2>2. CASE folder = "ARCHIVE"
    BY <2>2 DEF MoveRead, Sources
  <2> QED
    BY <2>1, <2>2
<1>7. Ready(r)'
  BY <1>1, <1>3, <1>6 DEF Ready, At
<1> QED
  BY <1>1, <1>2, <1>4, <1>5, <1>7, BeginInv

LEMMA PurgeReadInv ==
  ASSUME MailboxInv, NEW r \in Requests, NEW u \in Members, NEW m \in Messages,
         PurgeRead(r, u, m)
  PROVE  MailboxInv'
<1> DEFINE q == [Idle EXCEPT !.pc = "purge", !.user = {u}, !.messages = {m}]
<1>1. /\ q \in RequestType /\ q # Idle
      /\ q.pc = "purge" /\ q.user = {u} /\ q.messages = {m} /\ q.files = {}
  BY DEF MailboxInv, Types, TypeOK, Idle, RequestType, Pcs, Folders
<1>2. Begin(r, q) /\ files \subseteq files' /\ files' \subseteq Attachments
  BY DEF PurgeRead, MailboxInv, Types, TypeOK
<1>3. req'[r] = q /\ UNCHANGED <<status, item, row, box>>
  BY <1>2 DEF Begin, content, MailboxInv, Types
<1> HIDE DEF q
<1>4. Shape(r)'
  BY <1>1, <1>3 DEF Shape, At
<1>5. InHand(r)'
  BY <1>1, <1>3 DEF InHand, At
<1>6. Ready(r)'
  BY <1>1, <1>3 DEF Ready, At, PurgeRead, Purgeable
<1> QED
  BY <1>1, <1>2, <1>4, <1>5, <1>6, BeginInv

LEMMA AttachReadInv ==
  ASSUME MailboxInv, NEW r \in Requests, NEW m \in Messages, NEW a \in Attachments,
         AttachRead(r, m, a)
  PROVE  MailboxInv'
<1> DEFINE q == [Idle EXCEPT !.pc = "attach", !.user = {Author[m]}, !.messages = {m},
                           !.files = {a}, !.box = box[Author[m]].gen]
<1>1. /\ q \in RequestType /\ q # Idle
      /\ q.pc = "attach" /\ q.user = {Author[m]} /\ q.messages = {m} /\ q.files = {a}
  BY DEF MailboxInv, Types, TypeOK, Idle, RequestType, Pcs, Folders
<1>2. Begin(r, q) /\ files \subseteq files' /\ files' \subseteq Attachments
  BY DEF AttachRead, MailboxInv, Types, TypeOK
<1>3. req'[r] = q /\ UNCHANGED <<status, item, row, box>>
  BY <1>2 DEF Begin, content, MailboxInv, Types
<1> HIDE DEF q
<1>4. Shape(r)'
  BY <1>1, <1>3 DEF Shape, At
<1>5. InHand(r)'
  BY <1>1, <1>3 DEF InHand, At, AttachRead, Unused
<1>6. Ready(r)'
  BY <1>1, <1>3 DEF Ready, At, AttachRead, Open, Editable
<1>7. q.pc = "attach" => \A p \in Requests : q.files \cap req[p].files = {}
  BY <1>1 DEF AttachRead, Unused
<1> QED
  BY <1>1, <1>2, <1>4, <1>5, <1>6, <1>7, BeginInv

LEMMA DetachReadInv ==
  ASSUME MailboxInv, NEW r \in Requests, NEW m \in Messages, NEW a \in Attachments,
         DetachRead(r, m, a)
  PROVE  MailboxInv'
<1> DEFINE q == [Idle EXCEPT !.pc = "detach", !.user = {Author[m]}, !.messages = {m},
                           !.files = {a}, !.box = box[Author[m]].gen]
<1>1. /\ q \in RequestType /\ q # Idle
      /\ q.pc = "detach" /\ q.user = {Author[m]} /\ q.messages = {m} /\ q.files = {a} /\ q.box = box[Author[m]].gen
  BY DEF MailboxInv, Types, TypeOK, Idle, RequestType, Pcs, Folders
<1>2. Begin(r, q) /\ files \subseteq files' /\ files' \subseteq Attachments
  BY DEF DetachRead, MailboxInv, Types, TypeOK
<1>3. req'[r] = q /\ UNCHANGED <<status, item, row, box>>
  BY <1>2 DEF Begin, content, MailboxInv, Types
<1> HIDE DEF q
<1>4. Shape(r)'
  BY <1>1, <1>3 DEF Shape, At
<1>5. InHand(r)'
  BY <1>1, <1>3 DEF InHand, At, DetachRead
<1>6. Ready(r)'
  BY <1>1, <1>3 DEF Ready, At, DetachRead, Editable
<1> QED
  BY <1>1, <1>2, <1>4, <1>5, <1>6, BeginInv

LEMMA DiscardReadInv ==
  ASSUME MailboxInv, NEW r \in Requests, NEW m \in Messages,
         DiscardRead(r, m)
  PROVE  MailboxInv'
<1> DEFINE q == [Idle EXCEPT !.pc = "discard", !.user = {Author[m]}, !.messages = {m},
                           !.files = Of(m), !.box = box[Author[m]].gen]
<1>1. /\ q \in RequestType /\ q # Idle
      /\ q.pc = "discard" /\ q.user = {Author[m]} /\ q.messages = {m} /\ q.files = Of(m) /\ q.box = box[Author[m]].gen
  BY DEF MailboxInv, Types, TypeOK, Idle, RequestType, Pcs, Folders, Of
<1>2. Begin(r, q) /\ files \subseteq files' /\ files' \subseteq Attachments
  BY DEF DiscardRead, MailboxInv, Types, TypeOK
<1>3. req'[r] = q /\ UNCHANGED <<status, item, row, box>>
  BY <1>2 DEF Begin, content, MailboxInv, Types
<1> HIDE DEF q
<1>4. Shape(r)'
  BY <1>1, <1>3 DEF Shape, At
<1>5. InHand(r)'
  BY <1>1, <1>3 DEF InHand, At, Of
<1>6. Ready(r)'
  BY <1>1, <1>3 DEF Ready, At, DiscardRead, Editable, Of
<1> QED
  BY <1>1, <1>2, <1>4, <1>5, <1>6, BeginInv

LEMMA SendReadInv ==
  ASSUME MailboxInv, NEW r \in Requests, NEW m \in Messages,
         SendRead(r, m)
  PROVE  MailboxInv'
<1> DEFINE q == [Idle EXCEPT !.pc = "send", !.user = {Author[m]}, !.messages = {m}]
<1>1. /\ q \in RequestType /\ q # Idle
      /\ q.pc = "send" /\ q.user = {Author[m]} /\ q.messages = {m} /\ q.files = {}
  BY DEF MailboxInv, Types, TypeOK, Idle, RequestType, Pcs, Folders
<1>2. Begin(r, q) /\ files \subseteq files' /\ files' \subseteq Attachments
  BY DEF SendRead, MailboxInv, Types, TypeOK
<1>3. req'[r] = q /\ UNCHANGED <<status, item, row, box>>
  BY <1>2 DEF Begin, content, MailboxInv, Types
<1> HIDE DEF q
<1>4. Shape(r)'
  BY <1>1, <1>3 DEF Shape, At
<1>5. InHand(r)'
  BY <1>1, <1>3 DEF InHand, At
<1>6. Ready(r)'
  BY <1>1, <1>3 DEF Ready, At, SendRead
<1> QED
  BY <1>1, <1>2, <1>4, <1>5, <1>6, BeginInv

LEMMA RetainReadInv ==
  ASSUME MailboxInv, NEW r \in Requests, NEW u \in Members, NEW old \in (SUBSET Messages) \ {{}},
         RetainRead(r, u, old)
  PROVE  MailboxInv'
<1> DEFINE q == [Idle EXCEPT !.pc = "retain", !.user = {u}, !.messages = old,
                           !.files = UNION {Of(m) : m \in old}, !.box = box[u].gen]
<1>0. /\ UNION {Of(m) : m \in old} \subseteq Attachments
      /\ \A a \in Attachments : a \in UNION {Of(m) : m \in old} <=> row[a] \in old
  BY DEF Of
<1>1. /\ q \in RequestType /\ q # Idle
      /\ q.pc = "retain" /\ q.user = {u} /\ q.messages = old /\ q.files = UNION {Of(m) : m \in old} /\ q.box = box[u].gen
  BY <1>0 DEF MailboxInv, Types, TypeOK, Idle, RequestType, Pcs, Folders
<1>2. Begin(r, q) /\ files \subseteq files' /\ files' \subseteq Attachments
  BY DEF RetainRead, MailboxInv, Types, TypeOK
<1>3. req'[r] = q /\ UNCHANGED <<status, item, row, box>>
  BY <1>2 DEF Begin, content, MailboxInv, Types
<1> HIDE DEF q
<1>4. Shape(r)'
  <2>1. old # {} /\ \A m \in old : Author[m] = u
    BY DEF RetainRead
  <2>2. /\ At(r, "retain")' /\ req'[r].messages # {}
        /\ req'[r].user = {u} /\ \A m \in req'[r].messages : Author[m] = u
    BY <1>1, <1>3, <2>1 DEF At
  <2> QED
    BY <2>2 DEF Shape
<1>5. InHand(r)'
  BY <1>0, <1>1, <1>3 DEF InHand, At
<1>6. Ready(r)'
  BY <1>0, <1>1, <1>3 DEF Ready, At, RetainRead
<1> QED
  BY <1>1, <1>2, <1>4, <1>5, <1>6, BeginInv

LEMMA LimitReadInv ==
  ASSUME MailboxInv, NEW r \in Requests, NEW u \in Members, NEW limit \in Limits,
         LimitRead(r, u, limit)
  PROVE  MailboxInv'
<1> DEFINE q == [Idle EXCEPT !.pc = "limit", !.user = {u}, !.limit = limit, !.box = box[u].gen]
<1>1. /\ q \in RequestType /\ q # Idle
      /\ q.pc = "limit" /\ q.user = {u} /\ q.limit = limit /\ q.files = {}
  BY DEF MailboxInv, Types, TypeOK, Idle, RequestType, Pcs, Folders
<1>2. Begin(r, q) /\ files \subseteq files' /\ files' \subseteq Attachments
  BY DEF LimitRead, MailboxInv, Types, TypeOK
<1>3. req'[r] = q /\ UNCHANGED <<status, item, row, box>>
  BY <1>2 DEF Begin, content, MailboxInv, Types
<1> HIDE DEF q
<1>4. Shape(r)'
  BY <1>1, <1>3 DEF Shape, At
<1>5. InHand(r)'
  BY <1>1, <1>3 DEF InHand, At
<1>6. Ready(r)'
  BY <1>1, <1>3 DEF Ready, At, LimitRead
<1> QED
  BY <1>1, <1>2, <1>4, <1>5, <1>6, BeginInv

LEMMA DropReadInv ==
  ASSUME MailboxInv, NEW r \in Requests, NEW u \in Members,
         DropRead(r, u)
  PROVE  MailboxInv'
<1> DEFINE q == [Idle EXCEPT !.pc = "drop", !.user = {u}, !.box = box[u].gen]
<1>1. /\ q \in RequestType /\ q # Idle
      /\ q.pc = "drop" /\ q.user = {u} /\ q.files = {}
  BY DEF MailboxInv, Types, TypeOK, Idle, RequestType, Pcs, Folders
<1>2. Begin(r, q) /\ files \subseteq files' /\ files' \subseteq Attachments
  BY DEF DropRead, MailboxInv, Types, TypeOK
<1>3. req'[r] = q /\ UNCHANGED <<status, item, row, box>>
  BY <1>2 DEF Begin, content, MailboxInv, Types
<1> HIDE DEF q
<1>4. Shape(r)'
  BY <1>1, <1>3 DEF Shape, At
<1>5. InHand(r)'
  BY <1>1, <1>3 DEF InHand, At
<1>6. Ready(r)'
  BY <1>1, <1>3 DEF Ready, At, DropRead
<1> QED
  BY <1>1, <1>2, <1>4, <1>5, <1>6, BeginInv

\* An upload whose file could not be written.
LEMMA SaveFailsInv ==
  ASSUME MailboxInv, NEW m \in Messages, NEW a \in Attachments, SaveFails(m, a) PROVE MailboxInv'
<1>1. /\ files' = files \cup {a} /\ UNCHANGED <<status, item, row, box, req, late, crashes>>
      /\ left > 0 /\ left' = left - 1 /\ faults > 0 /\ faults' = faults - 1
  BY DEF SaveFails, content
<1>2. left' \in Nat /\ faults' \in Nat
  BY <1>1 DEF MailboxInv, Types, TypeOK
<1>3. Types'
  BY <1>1, <1>2 DEF MailboxInv, Types, TypeOK, At
<1>4. FilesInv'
  BY <1>1 DEF MailboxInv, FilesInv, Apart, InHand, At
<1>5. Calls'
  BY <1>1 DEF MailboxInv, Calls, Shape, Ready, At
<1> QED
  BY <1>3, <1>4, <1>5 DEF MailboxInv

LEMMA ReadStepInv ==
  ASSUME MailboxInv, NEW r \in Requests, ReadStep(r) PROVE MailboxInv'
<1>1. ASSUME NEW u \in Members, NEW folder \in {"INBOX", "ARCHIVE", "TRASH"},
             \/ \E m \in Messages : MoveRead(r, u, {m}, folder, FALSE)
             \/ \E moved \in (SUBSET Messages) \ {{}} : MoveRead(r, u, moved, folder, TRUE)
      PROVE  MailboxInv'
  <2>1. ASSUME NEW m \in Messages, MoveRead(r, u, {m}, folder, FALSE) PROVE MailboxInv'
    BY <2>1, MoveReadInv
  <2>2. ASSUME NEW moved \in SUBSET Messages, MoveRead(r, u, moved, folder, TRUE)
        PROVE  MailboxInv'
    BY <2>2, MoveReadInv
  <2> QED
    BY <1>1, <2>1, <2>2
<1>2. ASSUME NEW u \in Members, NEW m \in Messages, PurgeRead(r, u, m) PROVE MailboxInv'
  BY <1>2, PurgeReadInv
<1>3. ASSUME NEW m \in Messages, NEW a \in Attachments,
             AttachRead(r, m, a) \/ DetachRead(r, m, a) \/ SaveFails(m, a)
      PROVE  MailboxInv'
  BY <1>3, AttachReadInv, DetachReadInv, SaveFailsInv
<1>4. ASSUME NEW m \in Messages, DiscardRead(r, m) \/ SendRead(r, m) PROVE MailboxInv'
  BY <1>4, DiscardReadInv, SendReadInv
<1>5. ASSUME NEW u \in Members, NEW old \in (SUBSET Messages) \ {{}}, RetainRead(r, u, old)
      PROVE  MailboxInv'
  BY <1>5, RetainReadInv
<1>6. ASSUME NEW u \in Members, NEW limit \in Limits, LimitRead(r, u, limit) PROVE MailboxInv'
  BY <1>6, LimitReadInv
<1>7. ASSUME NEW u \in Members, DropRead(r, u) PROVE MailboxInv'
  BY <1>7, DropReadInv
<1> QED
  BY <1>1, <1>2, <1>3, <1>4, <1>5, <1>6, <1>7 DEF ReadStep

\* What each request writes.
LEMMA AnswerInv ==
  ASSUME MailboxInv, NEW r \in Requests, Answer(r), Watch({r}), UNCHANGED <<row, files, left>>,
         status' \in [Messages -> Statuses],
         item' \in [Members -> [Messages -> Folders \cup {Absent}]],
         box' \in [Members -> [gen : Nat, used : Int, limit : Limits]], crashes' \in Nat, faults' \in Nat
  PROVE  MailboxInv'
<1>1. req'[r] = Idle /\ \A p \in Requests : p # r => req'[p] = req[p]
  BY DEF Answer, MailboxInv, Types
<1>2. Types'
  BY IdleType, WriteTypes DEF Answer, MailboxInv, Types, TypeOK, At
<1>3. FilesInv'
  BY <1>1, WriteFiles DEF MailboxInv
<1>4. Calls'
  BY <1>1, WriteCalls
<1> QED
  BY <1>2, <1>3, <1>4 DEF MailboxInv

LEMMA SendInv ==
  ASSUME MailboxInv, NEW r \in Requests, NEW to \in SUBSET Members, Send(r, to) PROVE MailboxInv'
<1>0. PICK m \in Messages : req[r].messages = {m}
  BY DEF Send, MailboxInv, Calls, Shape, Idle, At
<1>1. \/ Delivery(m, to)
      \/ UNCHANGED <<status, item>>
  BY <1>0 DEF Send
<1>2. status' \in [Messages -> Statuses]
  BY <1>1 DEF Delivery, MailboxInv, Types, TypeOK, Statuses
<1>3. ASSUME Delivery(m, to) PROVE item' \in [Members -> [Messages -> Folders \cup {Absent}]]
  <2>1. \A u \in Members, f \in Folders :
          [item[u] EXCEPT ![m] = f] \in [Messages -> Folders \cup {Absent}]
    BY DEF MailboxInv, Types, TypeOK
  <2>2. \A u \in Members : item[u] \in [Messages -> Folders \cup {Absent}]
    BY DEF MailboxInv, Types, TypeOK
  <2> QED
    BY <1>3, <2>1, <2>2 DEF Delivery, Folders
<1>4. item' \in [Members -> [Messages -> Folders \cup {Absent}]]
  BY <1>1, <1>3 DEF MailboxInv, Types, TypeOK
<1> QED
  BY <1>2, <1>4, AnswerInv DEF Send, MailboxInv, Types, TypeOK, fuel

\* A mailbox that is written, and the member whose request it is.
LEMMA BoxTypes ==
  ASSUME Types, NEW u \in Members,
         NEW gen \in Nat, NEW used \in Int, NEW limit \in Limits,
         box' = [box EXCEPT ![u] = [gen |-> gen, used |-> used, limit |-> limit]]
  PROVE  /\ box' \in [Members -> [gen : Nat, used : Int, limit : Limits]]
         /\ box'[u].gen = gen /\ box'[u].used = used /\ box'[u].limit = limit
         /\ \A v \in Members : v # u => box'[v] = box[v]
<1> DEFINE new == [gen |-> gen, used |-> used, limit |-> limit]
<1>1. new \in [gen : Nat, used : Int, limit : Limits]
      /\ new.gen = gen /\ new.used = used /\ new.limit = limit
  OBVIOUS
<1>2. box' = [box EXCEPT ![u] = new]
  OBVIOUS
<1> HIDE DEF new
<1> QED
  BY <1>1, <1>2 DEF Types, TypeOK

\* The fields of a mailbox, one at a time.
LEMMA BoxFields ==
  ASSUME Types, NEW u \in Members
  PROVE  /\ box[u].gen \in Nat /\ box[u].used \in Int /\ box[u].limit \in Limits
         /\ \A x : [box EXCEPT ![u].used = x] =
                    [box EXCEPT ![u] = [gen |-> box[u].gen, used |-> x, limit |-> box[u].limit]]
         /\ \A x : [box EXCEPT ![u].limit = x] =
                    [box EXCEPT ![u] = [gen |-> box[u].gen, used |-> box[u].used, limit |-> x]]
<1>1. box[u] \in [gen : Nat, used : Int, limit : Limits]
  BY DEF Types, TypeOK
<1>2. ASSUME NEW x
      PROVE  /\ [box[u] EXCEPT !.used = x] = [gen |-> box[u].gen, used |-> x, limit |-> box[u].limit]
             /\ [box[u] EXCEPT !.limit = x] = [gen |-> box[u].gen, used |-> box[u].used, limit |-> x]
  BY <1>1
<1> QED
  BY <1>1, <1>2

LEMMA HolderIs ==
  ASSUME NEW r \in Requests, NEW u \in Members, req[r].user = {u} PROVE Holder(r) = u
  BY DEF Holder

LEMMA UsedTypes ==
  ASSUME Types, NEW u \in Members, NEW x \in Int, box' = [box EXCEPT ![u].used = x]
  PROVE  /\ box' \in [Members -> [gen : Nat, used : Int, limit : Limits]]
         /\ box'[u].gen = box[u].gen /\ box'[u].used = x /\ box'[u].limit = box[u].limit
         /\ \A v \in Members : v # u => box'[v] = box[v]
<1>1. box[u] \in [gen : Nat, used : Int, limit : Limits]
  BY DEF Types, TypeOK
<1> DEFINE new == [box[u] EXCEPT !.used = x]
<1>2. new \in [gen : Nat, used : Int, limit : Limits]
      /\ new.gen = box[u].gen /\ new.used = x /\ new.limit = box[u].limit
  BY <1>1
<1>3. box' = [box EXCEPT ![u] = new]
  OBVIOUS
<1> HIDE DEF new
<1>4. box'[u] = new /\ \A v \in Members : v # u => box'[v] = box[v]
  BY <1>3 DEF Types, TypeOK
<1>5. box' \in [Members -> [gen : Nat, used : Int, limit : Limits]]
  <2> DEFINE Boxes == [gen : Nat, used : Int, limit : Limits]
  <2>1. box \in [Members -> Boxes] /\ new \in Boxes
    BY <1>2 DEF Types, TypeOK
  <2> HIDE DEF Boxes
  <2>2. box' \in [Members -> Boxes]
    BY <1>3, <2>1
  <2> QED
    BY <2>2 DEF Boxes
<1> QED
  BY <1>2, <1>4, <1>5

LEMMA MoveInv ==
  ASSUME MailboxInv, NEW r \in Requests, Move(r) PROVE MailboxInv'
<1>1. PICK u \in Members : req[r].user = {u}
  BY DEF Move, MailboxInv, Calls, Shape, Idle, At
<1>2. req[r].folder \in Folders \cup {Absent}
  BY DEF MailboxInv, Types, RequestType
<1> DEFINE new == [m \in Messages |->
                     IF m \in req[r].messages /\ item[u][m] # Absent THEN req[r].folder
                     ELSE item[u][m]]
<1>3. item' = [item EXCEPT ![u] = new]
  BY <1>1, HolderIs DEF Move
<1>4. new \in [Messages -> Folders \cup {Absent}]
  BY <1>2 DEF MailboxInv, Types, TypeOK
<1> HIDE DEF new
<1>5. item' \in [Members -> [Messages -> Folders \cup {Absent}]]
  BY <1>3, <1>4 DEF MailboxInv, Types, TypeOK
<1> QED
  BY <1>5, AnswerInv DEF Move, MailboxInv, Types, TypeOK, fuel

LEMMA PurgeInv ==
  ASSUME MailboxInv, NEW r \in Requests, Purge(r) PROVE MailboxInv'
<1>1. PICK u \in Members : req[r].user = {u}
  BY DEF Purge, MailboxInv, Calls, Shape, Idle, At
<1>2. item' = [item EXCEPT ![u] = [m \in Messages |->
                 IF m \in req[r].messages THEN Absent ELSE @[m]]]
  BY <1>1, HolderIs DEF Purge
<1>3. item' \in [Members -> [Messages -> Folders \cup {Absent}]]
  BY <1>2 DEF MailboxInv, Types, TypeOK
<1> QED
  BY <1>3, AnswerInv DEF Purge, MailboxInv, Types, TypeOK, fuel

LEMMA LimitInv ==
  ASSUME MailboxInv, NEW r \in Requests, Limit(r) PROVE MailboxInv'
<1>1. req[r].limit \in Limits
  BY DEF Limit, MailboxInv, Calls, Shape, Idle, At
<1>2. PICK u \in Members : req[r].user = {u}
  BY DEF Limit, MailboxInv, Calls, Shape, Idle, At
<1>3. box' = [box EXCEPT ![u].limit = req[r].limit] \/ box' = box
  BY <1>2, HolderIs DEF Limit
<1>4. box' \in [Members -> [gen : Nat, used : Int, limit : Limits]]
  <2>1. ASSUME box' = [box EXCEPT ![u].limit = req[r].limit]
        PROVE  box' = [box EXCEPT ![u] = [gen |-> box[u].gen, used |-> box[u].used,
                                          limit |-> req[r].limit]]
    BY <2>1, BoxFields DEF MailboxInv
  <2>2. box[u].gen \in Nat /\ box[u].used \in Int
    BY BoxFields DEF MailboxInv
  <2> QED
    BY <1>1, <1>3, <2>1, <2>2, BoxTypes DEF MailboxInv, Types, TypeOK
<1> QED
  BY <1>4, AnswerInv DEF Limit, MailboxInv, Types, TypeOK, fuel, content

LEMMA DropInv ==
  ASSUME MailboxInv, NEW r \in Requests, Drop(r) PROVE MailboxInv'
<1>1. PICK u \in Members : req[r].user = {u}
  BY DEF Drop, MailboxInv, Calls, Shape, Idle, At
<1>2. \/ item' = [item EXCEPT ![u] = [m \in Messages |-> Absent]]
      \/ item' = item
  BY <1>1, HolderIs DEF Drop
<1>3. \/ box' = [box EXCEPT ![u] = [gen |-> @.gen + 1, used |-> 0, limit |-> FirstLimit]]
      \/ box' = box
  BY <1>1, HolderIs DEF Drop
<1>4. item' \in [Members -> [Messages -> Folders \cup {Absent}]]
  BY <1>2 DEF MailboxInv, Types, TypeOK
<1>5. box' \in [Members -> [gen : Nat, used : Int, limit : Limits]]
  <2>1. CASE box' = box
    BY <2>1 DEF MailboxInv, Types, TypeOK
  <2>2. CASE box' = [box EXCEPT ![u] = [gen |-> @.gen + 1, used |-> 0, limit |-> FirstLimit]]
    <3>1. box[u].gen + 1 \in Nat
      BY BoxFields DEF MailboxInv
    <3>2. box' = [box EXCEPT ![u] = [gen |-> box[u].gen + 1, used |-> 0, limit |-> FirstLimit]]
      BY <2>2
    <3>3. 0 \in Int /\ FirstLimit \in Limits
      OBVIOUS
    <3> QED
      BY <3>1, <3>2, <3>3, BoxTypes DEF MailboxInv
  <2> QED
    BY <1>3, <2>1, <2>2
<1>6. /\ Answer(r) /\ Watch({r}) /\ UNCHANGED <<row, files, left>>
      /\ status' \in [Messages -> Statuses] /\ crashes' \in Nat /\ faults' \in Nat
  BY DEF Drop, MailboxInv, Types, TypeOK, fuel
<1> QED
  BY <1>4, <1>5, <1>6, AnswerInv

\* A request that only deletes files from now on.
LEMMA UnlinkFields ==
  ASSUME Types, NEW r \in Requests, req' = [req EXCEPT ![r].pc = "unlink"]
  PROVE  \E q \in RequestType :
           /\ req' = [req EXCEPT ![r] = q]
           /\ req'[r] = q /\ q.pc = "unlink" /\ q.files = req[r].files
           /\ \A p \in Requests : p # r => req'[p] = req[p]
<1> DEFINE q == [req[r] EXCEPT !.pc = "unlink"]
<1>1. q \in RequestType /\ q.pc = "unlink" /\ q.files = req[r].files
  BY DEF Types, RequestType, Pcs
<1>2. req' = [req EXCEPT ![r] = q]
  OBVIOUS
<1> HIDE DEF q
<1> QED
  BY <1>1, <1>2 DEF Types

\* What an upload writes, whether or not it fails.
LEMMA AttachDoes ==
  ASSUME MailboxInv, NEW r \in Requests, Attach(r) \/ AttachFails(r)
  PROVE  \E m \in Messages, a \in Attachments :
           /\ req[r].user = {Author[m]} /\ req[r].messages = {m} /\ req[r].files = {a}
           /\ row[a] = New /\ a \in files /\ files' \in {files, files \ {a}}
           /\ \/ /\ Fits(Author[m]) /\ status[m] # "gone"
                 /\ row' = [row EXCEPT ![a] = m] /\ (faults' = faults => files' = files)
                 /\ box' = [box EXCEPT ![Author[m]].used = @ + 1]
              \/ /\ row' = [row EXCEPT ![a] = Past] /\ box' = box
                 /\ (faults' = faults => files' = files \ {a})
<1>1. PICK m \in Messages, a \in Attachments :
        req[r].user = {Author[m]} /\ req[r].messages = {m} /\ req[r].files = {a}
  BY DEF Attach, AttachFails, MailboxInv, Calls, Shape, Idle, At
<1>2. row[a] = New /\ a \in files
  BY <1>1 DEF Attach, AttachFails, MailboxInv, FilesInv, InHand
<1>3. Holder(r) = Author[m]
  BY <1>1, HolderIs
<1>4. (CHOOSE n \in req[r].messages : TRUE) = m /\ (CHOOSE b \in req[r].files : TRUE) = a
  BY <1>1
<1>5. CASE Attach(r)
  BY <1>1, <1>2, <1>3, <1>4, <1>5 DEF Attach
<1>6. CASE AttachFails(r)
  <2>1. faults' # faults
    BY <1>6 DEF AttachFails, MailboxInv, Types, TypeOK
  <2> QED
    BY <1>1, <1>2, <1>3, <1>4, <1>6, <2>1 DEF AttachFails
<1> QED
  BY <1>5, <1>6

LEMMA AttachInv ==
  ASSUME MailboxInv, NEW r \in Requests, Attach(r) \/ AttachFails(r) PROVE MailboxInv'
<1>1. PICK m \in Messages, a \in Attachments :
           /\ req[r].user = {Author[m]} /\ req[r].messages = {m} /\ req[r].files = {a}
           /\ row[a] = New /\ a \in files /\ files' \in {files, files \ {a}}
           /\ \/ /\ Fits(Author[m]) /\ status[m] # "gone"
                 /\ row' = [row EXCEPT ![a] = m] /\ (faults' = faults => files' = files)
                 /\ box' = [box EXCEPT ![Author[m]].used = @ + 1]
              \/ /\ row' = [row EXCEPT ![a] = Past] /\ box' = box
                 /\ (faults' = faults => files' = files \ {a})
  BY AttachDoes
<1>2. /\ req' = [req EXCEPT ![r] = Idle] /\ Watch({r})
      /\ UNCHANGED <<status, item, left, crashes>> /\ At(r, "attach") /\ faults' \in Nat
  BY DEF Attach, AttachFails, Answer, fuel, MailboxInv, Types, TypeOK
<1>3. row' \in [Attachments -> Messages \cup {New, Past}]
  BY <1>1 DEF MailboxInv, Types, TypeOK
<1>4. box' \in [Members -> [gen : Nat, used : Int, limit : Limits]]
  <2>1. ASSUME box' = [box EXCEPT ![Author[m]].used = @ + 1]
        PROVE  box' \in [Members -> [gen : Nat, used : Int, limit : Limits]]
    <3> DEFINE u == Author[m]
    <3>1. u \in Members
      OBVIOUS
    <3> HIDE DEF u
    <3>2. box' = [box EXCEPT ![u].used = box[u].used + 1]
      BY <2>1 DEF u
    <3>3. box[u].used + 1 \in Int
      BY <3>1, BoxFields DEF MailboxInv
    <3> QED
      BY <3>1, <3>2, <3>3, UsedTypes DEF MailboxInv
  <2> QED
    BY <1>1, <2>1 DEF MailboxInv, Types, TypeOK
<1>5. req'[r] = Idle /\ \A p \in Requests : p # r => req'[p] = req[p]
  BY <1>2 DEF MailboxInv, Types
<1>6. \A p \in Requests : p # r /\ At(p, "attach") => req[p].files \subseteq files'
  BY <1>1, <1>2 DEF MailboxInv, Types, TypeOK, FilesInv, Apart
<1>7. files' \subseteq Attachments
  BY <1>1 DEF MailboxInv, Types, TypeOK
<1>8. Types'
  BY <1>2, <1>3, <1>4, <1>6, <1>7, IdleType, WriteTypes DEF MailboxInv, Types, TypeOK
<1>9. FilesInv'
  <2>1. \A b \in Attachments : b # a => row'[b] = row[b]
    BY <1>1 DEF MailboxInv, Types, TypeOK
  <2>2. row'[a] \in {m, Past}
    BY <1>1 DEF MailboxInv, Types, TypeOK
  <2>3. \A b \in Attachments :
          \/ row'[b] = row[b]
          \/ row'[b] = Past /\ (row[b] \in Messages \/ (At(r, "attach") /\ b \in req[r].files))
          \/ row'[b] \in Messages /\ At(r, "attach") /\ b \in req[r].files
    BY <1>1, <1>2, <2>1, <2>2
  <2>4. files' \subseteq files
    BY <1>1
  <2>5. \A b \in files \ files' : b \in req[r].files /\ req[r].pc \in {"attach", "unlink"}
    BY <1>1, <1>2 DEF At
  <2> QED
    BY <1>5, <2>3, <2>4, <2>5, WriteFiles
<1>10. Calls'
  BY <1>2, <1>5, WriteCalls
<1> QED
  BY <1>8, <1>9, <1>10 DEF MailboxInv

\* What the deletion of an attachment writes.
LEMMA DetachDoes ==
  ASSUME MailboxInv, NEW r \in Requests, Detach(r)
  PROVE  \E m \in Messages, a \in Attachments :
           /\ req[r].user = {Author[m]} /\ req[r].messages = {m} /\ req[r].files = {a}
           /\ \/ /\ row[a] = m /\ row' = [row EXCEPT ![a] = Past]
                 /\ box' = [box EXCEPT ![Author[m]].used = @ - 1]
                 /\ req' = [req EXCEPT ![r].pc = "unlink"]
              \/ /\ ~(row[a] = m /\ box[Author[m]].gen = req[r].box)
                 /\ Answer(r) /\ UNCHANGED <<row, box>>
<1>1. PICK m \in Messages, a \in Attachments :
        req[r].user = {Author[m]} /\ req[r].messages = {m} /\ req[r].files = {a}
  BY DEF Detach, MailboxInv, Calls, Shape, Idle, At
<1>2. Holder(r) = Author[m]
  BY <1>1, HolderIs
<1>3. (CHOOSE n \in req[r].messages : TRUE) = m
  BY <1>1
<1>4. req[r].files \cap Of(m) # {} <=> row[a] = m
  BY <1>1 DEF Of
<1>5. [b \in Attachments |-> IF b \in req[r].files THEN Past ELSE row[b]] = [row EXCEPT ![a] = Past]
  BY <1>1 DEF MailboxInv, Types, TypeOK
<1>6. CASE row[a] = m /\ box[Author[m]].gen = req[r].box
  BY <1>1, <1>2, <1>3, <1>4, <1>5, <1>6 DEF Detach
<1>7. CASE ~(row[a] = m /\ box[Author[m]].gen = req[r].box)
  BY <1>1, <1>2, <1>3, <1>4, <1>7 DEF Detach
<1> QED
  BY <1>6, <1>7

LEMMA DetachInv ==
  ASSUME MailboxInv, NEW r \in Requests, Detach(r) PROVE MailboxInv'
<1>1. PICK m \in Messages, a \in Attachments :
           /\ req[r].user = {Author[m]} /\ req[r].messages = {m} /\ req[r].files = {a}
           /\ \/ /\ row[a] = m /\ row' = [row EXCEPT ![a] = Past]
                 /\ box' = [box EXCEPT ![Author[m]].used = @ - 1]
                 /\ req' = [req EXCEPT ![r].pc = "unlink"]
              \/ /\ ~(row[a] = m /\ box[Author[m]].gen = req[r].box)
                 /\ Answer(r) /\ UNCHANGED <<row, box>>
  BY DetachDoes
<1>2. Watch({r}) /\ UNCHANGED <<status, item, files, left, crashes, faults>>
  BY DEF Detach, fuel
<1>3. CASE Answer(r) /\ UNCHANGED <<row, box>>
  BY <1>2, <1>3, AnswerInv DEF MailboxInv, Types, TypeOK
<1>4. CASE /\ row[a] = m /\ row' = [row EXCEPT ![a] = Past]
           /\ box' = [box EXCEPT ![Author[m]].used = @ - 1]
           /\ req' = [req EXCEPT ![r].pc = "unlink"]
  <2>1. PICK q \in RequestType :
           /\ req' = [req EXCEPT ![r] = q]
           /\ req'[r] = q /\ q.pc = "unlink" /\ q.files = req[r].files
           /\ \A p \in Requests : p # r => req'[p] = req[p]
    BY <1>4, UnlinkFields DEF MailboxInv
  <2>2. row' \in [Attachments -> Messages \cup {New, Past}]
    BY <1>4 DEF MailboxInv, Types, TypeOK
  <2>3. box' \in [Members -> [gen : Nat, used : Int, limit : Limits]]
    <3> DEFINE u == Author[m]
    <3>1. u \in Members
      OBVIOUS
    <3> HIDE DEF u
    <3>2. box' = [box EXCEPT ![u].used = box[u].used - 1]
      BY <1>4 DEF u
    <3>3. box[u].used - 1 \in Int
      BY <3>1, BoxFields DEF MailboxInv
    <3> QED
      BY <3>1, <3>2, <3>3, UsedTypes DEF MailboxInv
  <2>4. Types'
    BY <1>2, <2>1, <2>2, <2>3, WriteTypes DEF MailboxInv, Types, TypeOK
  <2>5. FilesInv'
    <3>1. \A b \in Attachments : b # a => row'[b] = row[b]
      BY <1>4 DEF MailboxInv, Types, TypeOK
    <3>2. row'[a] = Past
      BY <1>4 DEF MailboxInv, Types, TypeOK
    <3> QED
      BY <1>1, <1>2, <1>4, <2>1, <3>1, <3>2, WriteFiles
  <2>6. Calls'
    BY <1>2, <2>1, WriteCalls
  <2> QED
    BY <2>4, <2>5, <2>6 DEF MailboxInv
<1> QED
  BY <1>1, <1>3, <1>4

\* The deletion of messages, with the rows of their attachments.
LEMMA EraseInv ==
  ASSUME MailboxInv, NEW r \in Requests, req[r].pc \in {"discard", "retain"}, Erase(req[r].messages),
         req' = [req EXCEPT ![r].pc = "unlink"], Watch({r}), UNCHANGED <<files, left, crashes, faults>>,
         box' \in [Members -> [gen : Nat, used : Int, limit : Limits]]
  PROVE  MailboxInv'
<1>1. PICK q \in RequestType :
         /\ req' = [req EXCEPT ![r] = q]
         /\ req'[r] = q /\ q.pc = "unlink" /\ q.files = req[r].files
         /\ \A p \in Requests : p # r => req'[p] = req[p]
  BY UnlinkFields DEF MailboxInv
<1>2. row' \in [Attachments -> Messages \cup {New, Past}]
  BY DEF Erase, MailboxInv, Types, TypeOK
<1>3. status' \in [Messages -> Statuses]
  BY DEF Erase, MailboxInv, Types, TypeOK, Statuses
<1>4. item' \in [Members -> [Messages -> Folders \cup {Absent}]]
  BY DEF Erase, MailboxInv, Types, TypeOK
<1>5. Types'
  BY <1>1, <1>2, <1>3, <1>4, WriteTypes DEF MailboxInv, Types, TypeOK
<1>6. FilesInv'
  <2>1. req[r].messages \subseteq Messages /\ req[r].files \subseteq Attachments
    BY DEF MailboxInv, Types, RequestType
  <2>2. \A a \in Attachments : row'[a] = row[a] \/ (row'[a] = Past /\ row[a] \in Messages)
    BY <2>1 DEF Erase
  <2>3. \A a \in req[r].files : row[a] \in req[r].messages \cup {Past}
    BY DEF MailboxInv, FilesInv, InHand
  <2>4. \A a \in req[r].files : row'[a] = Past
    BY <2>1, <2>3 DEF Erase
  <2> QED
    BY <1>1, <2>2, <2>4, WriteFiles
<1>7. Calls'
  BY <1>1, WriteCalls
<1> QED
  BY <1>5, <1>6, <1>7 DEF MailboxInv

LEMMA FreedIs ==
  ASSUME MailboxInv, NEW r \in Requests
  PROVE  IsFiniteSet(req[r].files) /\ Freed(r) = Cardinality(req[r].files) /\ Freed(r) \in Nat
<1>1. req[r].files \subseteq Attachments
  BY DEF MailboxInv, Types, RequestType
<1> QED
  BY <1>1, FS_Subset, FS_CardinalityType DEF Freed

LEMMA DiscardInv ==
  ASSUME MailboxInv, NEW r \in Requests, Discard(r) PROVE MailboxInv'
<1>1. PICK u \in Members : req[r].user = {u}
  BY DEF Discard, MailboxInv, Calls, Shape, Idle, At
<1>2. Watch({r}) /\ UNCHANGED <<files, left, crashes, faults>> /\ req[r].pc = "discard"
  BY DEF Discard, fuel, At
<1>3. \/ /\ Erase(req[r].messages) /\ box' = [box EXCEPT ![u].used = @ - Freed(r)]
         /\ req' = [req EXCEPT ![r].pc = "unlink"]
      \/ Answer(r) /\ UNCHANGED <<content, box>>
  BY <1>1, HolderIs DEF Discard
<1>4. CASE Answer(r) /\ UNCHANGED <<content, box>>
  BY <1>2, <1>4, AnswerInv DEF MailboxInv, Types, TypeOK, content
<1>5. CASE /\ Erase(req[r].messages) /\ box' = [box EXCEPT ![u].used = @ - Freed(r)]
           /\ req' = [req EXCEPT ![r].pc = "unlink"]
  <2>1. box[u].used - Freed(r) \in Int
    BY BoxFields, FreedIs DEF MailboxInv
  <2>2. box' = [box EXCEPT ![u].used = box[u].used - Freed(r)]
    BY <1>5
  <2>3. box' \in [Members -> [gen : Nat, used : Int, limit : Limits]]
    BY <2>1, <2>2, UsedTypes DEF MailboxInv
  <2> QED
    BY <1>2, <1>5, <2>3, EraseInv
<1> QED
  BY <1>3, <1>4, <1>5

LEMMA RetainInv ==
  ASSUME MailboxInv, NEW r \in Requests, Retain(r) PROVE MailboxInv'
<1>1. PICK u \in Members : req[r].user = {u}
  BY DEF Retain, MailboxInv, Calls, Shape, Idle, At
<1>2. /\ Watch({r}) /\ UNCHANGED <<files, left, crashes, faults>> /\ req[r].pc = "retain"
      /\ Erase(req[r].messages) /\ req' = [req EXCEPT ![r].pc = "unlink"]
  BY DEF Retain, fuel, At
<1> DEFINE x == IF box[u].used > Freed(r) THEN box[u].used - Freed(r) ELSE 0
<1>3. box' = [box EXCEPT ![u].used = x] \/ box' = box
  BY <1>1, HolderIs DEF Retain
<1>4. x \in Int
  BY BoxFields, FreedIs DEF MailboxInv
<1> HIDE DEF x
<1>5. box' \in [Members -> [gen : Nat, used : Int, limit : Limits]]
  BY <1>3, <1>4, UsedTypes DEF MailboxInv, Types, TypeOK
<1> QED
  BY <1>2, <1>5, EraseInv

LEMMA UnlinkInv ==
  ASSUME MailboxInv, NEW r \in Requests, Unlink(r) \/ UnlinkFails(r) PROVE MailboxInv'
<1>1. /\ At(r, "unlink") /\ req' = [req EXCEPT ![r] = Idle] /\ faults' \in Nat
      /\ files' \subseteq files /\ files \ req[r].files \subseteq files'
      /\ Watch({r}) /\ UNCHANGED <<status, item, row, box, left, crashes>>
  <2>1. CASE Unlink(r)
    BY <2>1 DEF Unlink, Kept, Answer, content, fuel, MailboxInv, Types, TypeOK
  <2>2. CASE UnlinkFails(r)
    <3>1. faults' \in Nat
      BY <2>2 DEF UnlinkFails, MailboxInv, Types, TypeOK
    <3>2. PICK kept \in SUBSET req[r].files : files' = (files \ req[r].files) \cup (files \cap kept)
      BY <2>2 DEF UnlinkFails
    <3> QED
      BY <2>2, <3>1, <3>2 DEF UnlinkFails, Answer, content
  <2> QED
    BY <2>1, <2>2
<1>2. req'[r] = Idle /\ \A p \in Requests : p # r => req'[p] = req[p]
  BY <1>1 DEF MailboxInv, Types
<1>3. \A a \in req[r].files : row[a] = Past
  BY <1>1 DEF MailboxInv, FilesInv, InHand
<1>4. \A p \in Requests : At(p, "attach") => req[p].files \subseteq files'
  <2>1. New # Past
    BY DEF New, Past
  <2>2. ASSUME NEW p \in Requests, At(p, "attach"), NEW a \in req[p].files PROVE a \in files'
    <3>1. row[a] = New /\ a \in files
      BY <2>2 DEF MailboxInv, FilesInv, InHand
    <3> QED
      BY <1>1, <1>3, <2>1, <3>1
  <2> QED
    BY <2>2
<1>5. Types'
  BY <1>1, <1>4, IdleType, WriteTypes DEF MailboxInv, Types, TypeOK
<1>6. FilesInv'
  BY <1>1, <1>2, <1>3, WriteFiles DEF At
<1>7. Calls'
  BY <1>1, <1>2, WriteCalls
<1> QED
  BY <1>5, <1>6, <1>7 DEF MailboxInv

\* A request of which nothing was written, and whose files are left as they are.
LEMMA RolledBackInv ==
  ASSUME MailboxInv, NEW r \in Requests, RolledBack(r) PROVE MailboxInv'
<1>1. faults' \in Nat
  BY DEF RolledBack, MailboxInv, Types, TypeOK
<1> QED
  BY <1>1, AnswerInv DEF RolledBack, MailboxInv, Types, TypeOK, content

LEMMA CrashInv ==
  ASSUME MailboxInv, NEW r \in Requests, Crash(r) PROVE MailboxInv'
<1>1. /\ req' = [req EXCEPT ![r] = Idle] /\ Watch({r}) /\ crashes' = crashes - 1 /\ crashes > 0
      /\ row' = [a \in Attachments |-> IF At(r, "attach") /\ a \in req[r].files THEN Past ELSE row[a]]
      /\ UNCHANGED <<status, item, files, box, left, faults>>
  BY DEF Crash, Answer
<1>2. req'[r] = Idle /\ \A p \in Requests : p # r => req'[p] = req[p]
  BY <1>1 DEF MailboxInv, Types
<1>3. crashes' \in Nat
  BY <1>1 DEF MailboxInv, Types, TypeOK
<1>4. row' \in [Attachments -> Messages \cup {New, Past}]
  BY <1>1 DEF MailboxInv, Types, TypeOK
<1>5. Types'
  BY <1>1, <1>3, <1>4, IdleType, WriteTypes DEF MailboxInv, Types, TypeOK
<1>6. FilesInv'
  BY <1>1, <1>2, WriteFiles
<1>7. Calls'
  BY <1>1, <1>2, WriteCalls
<1> QED
  BY <1>5, <1>6, <1>7 DEF MailboxInv

LEMMA WriteStepInv ==
  ASSUME MailboxInv, NEW r \in Requests, WriteStep(r) PROVE MailboxInv'
  BY SendInv, MoveInv, PurgeInv, AttachInv, DetachInv, DiscardInv, UnlinkInv, RetainInv, LimitInv,
     DropInv, RolledBackInv, CrashInv DEF WriteStep

LEMMA StutterInv ==
  ASSUME MailboxInv, UNCHANGED vars PROVE MailboxInv'
<1>1. Types' /\ FilesInv'
  BY DEF vars, MailboxInv, Types, TypeOK, At, FilesInv, Apart, InHand
<1>2. Calls'
  BY DEF vars, MailboxInv, Calls, Shape, Ready, At
<1> QED
  BY <1>1, <1>2 DEF MailboxInv

LEMMA InitInv ==
  ASSUME Init PROVE MailboxInv
<1>1. TypeOK
  BY IdleType DEF Init, TypeOK, Statuses, At
<1>2. Types
  BY <1>1, IdleType DEF Init, Types
<1>3. FilesInv
  BY IdleType DEF Init, FilesInv, Apart, InHand, At
<1>4. Calls
  BY IdleType DEF Init, Calls, Shape, Ready, At
<1> QED
  BY <1>2, <1>3, <1>4 DEF MailboxInv

LEMMA MailboxInvHolds == Spec => []MailboxInv
<1>1. MailboxInv /\ [Next]_vars => MailboxInv'
  BY MessageStepInv, ReadStepInv, WriteStepInv, StutterInv DEF Next
<1> QED
  BY <1>1, InitInv, PTL DEF Spec

\* Every reachable state of the messages, folders, attachments, mailboxes and requests has its
\* type, and a request that links a file has it.
THEOREM MailboxTypeCorrect == Spec => []TypeOK
<1>1. MailboxInv => TypeOK
  BY DEF MailboxInv, Types
<1> QED
  BY <1>1, MailboxInvHolds, PTL

-----------------------------------------------------------------------------
(* What stays in a mailbox                                                 *)

ItemStays(u, m) ==
  /\ item'[u][m] = Absent /\ status'[m] # "gone" => item[u][m] \in {Absent, "TRASH"}
  /\ item[u][m] = "QUARANTINE" /\ status'[m] = status[m] =>
       item'[u][m] \in {"QUARANTINE", "TRASH", Absent}
  /\ status[m] = "SCHEDULED" => status'[m] # "gone"

\* A request that writes is not what it was: if it is late, a late one acts.
LEMMA LateActs ==
  ASSUME MailboxInv, NEW r \in Requests, r \in late, req[r] # Idle, req[r].pc # "unlink",
         Answer(r) \/ req' = [req EXCEPT ![r].pc = "unlink"]
  PROVE  ALateOneActs
<1>1. CASE Answer(r)
  BY <1>1 DEF Answer, ALateOneActs, Acts, MailboxInv, Types
<1>2. CASE req' = [req EXCEPT ![r].pc = "unlink"]
  <2>1. req'[r].pc = "unlink"
    BY <1>2, UnlinkFields DEF MailboxInv
  <2> QED
    BY <2>1 DEF ALateOneActs, Acts
<1> QED
  BY <1>1, <1>2

LEMMA OnTime ==
  ASSUME MailboxInv, NEW r \in Requests, ~ALateOneActs, req[r] # Idle, req[r].pc # "unlink",
         Answer(r) \/ req' = [req EXCEPT ![r].pc = "unlink"]
  PROVE  Ready(r)
  BY LateActs DEF MailboxInv, Calls

LEMMA ItemsByMessages ==
  ASSUME MailboxInv, MessageStep, NEW u \in Members, NEW m \in Messages PROVE ItemStays(u, m)
<1> USE DEF MailboxInv, Types, TypeOK
<1>1. ASSUME NEW n \in Messages, CreateDraft(n) PROVE ItemStays(u, m)
  BY <1>1 DEF CreateDraft, ItemStays, Folders, Absent
<1>2. ASSUME NEW n \in Messages, Schedule(n) PROVE ItemStays(u, m)
  BY <1>2 DEF Schedule, ItemStays
<1>3. ASSUME NEW n \in Messages, Verdict(n) PROVE ItemStays(u, m)
  BY <1>3 DEF Verdict, ItemStays, Absent
<1>4. ASSUME NEW n \in Messages, NEW to \in SUBSET Members, Deliver(n, to) PROVE ItemStays(u, m)
  <2>1. n # m => item'[u][m] = item[u][m] /\ status'[m] = status[m]
    BY <1>4 DEF Deliver, Delivery
  <2>2. n = m => /\ status'[m] = "SENT" /\ status[m] = "SCHEDULED"
                 /\ item'[u][m] \in {"SENT", "INBOX", item[u][m]}
    BY <1>4 DEF Deliver, Delivery
  <2> QED
    BY <2>1, <2>2 DEF ItemStays, Absent
<1>5. ASSUME NEW v \in Members, EmptyTrash(v) PROVE ItemStays(u, m)
  BY <1>5 DEF EmptyTrash, ItemStays
<1> QED
  BY <1>1, <1>2, <1>3, <1>4, <1>5 DEF MessageStep

LEMMA ItemsUnchanged ==
  ASSUME MailboxInv, UNCHANGED <<status, item>>, NEW u \in Members, NEW m \in Messages
  PROVE  ItemStays(u, m)
  BY DEF ItemStays

LEMMA ItemsByReads ==
  ASSUME NEW r \in Requests, ReadStep(r) PROVE UNCHANGED <<status, item, row, box, crashes>>
  BY DEF ReadStep, MoveRead, PurgeRead, AttachRead, DetachRead, DiscardRead, SendRead, RetainRead,
         LimitRead, DropRead, SaveFails, Begin, content

LEMMA ItemsByErase ==
  ASSUME MailboxInv, NEW gone \in SUBSET Messages, Erase(gone),
         \A n \in gone : status[n] # "SCHEDULED", NEW u \in Members, NEW m \in Messages
  PROVE  ItemStays(u, m)
  BY DEF Erase, ItemStays, MailboxInv, Types, TypeOK

LEMMA ItemsByWrites ==
  ASSUME MailboxInv, NEW r \in Requests, WriteStep(r), ~ALateOneActs,
         NEW u \in Members, NEW m \in Messages
  PROVE  ItemStays(u, m)
<1>0. req[r].messages \subseteq Messages /\ req[r].folder \in Folders \cup {Absent}
  BY DEF MailboxInv, Types, RequestType
<1>1. ASSUME NEW to \in SUBSET Members, Send(r, to) PROVE ItemStays(u, m)
  <2>1. PICK n \in Messages : req[r].messages = {n}
    BY <1>1 DEF Send, MailboxInv, Calls, Shape, Idle, At
  <2>2. Ready(r)
    BY <1>1, OnTime, IdleType DEF Send, At
  <2>3. status[n] = "DRAFT"
    BY <1>1, <2>1, <2>2 DEF Send, Ready, At
  <2>4. Delivery(n, to) \/ UNCHANGED <<status, item>>
    BY <1>1, <2>1 DEF Send
  <2>5. CASE Delivery(n, to)
    <3>1. n # m => item'[u][m] = item[u][m] /\ status'[m] = status[m]
      BY <2>5 DEF Delivery, MailboxInv, Types, TypeOK
    <3>2. n = m => /\ status'[m] = "SENT"
                   /\ item'[u][m] \in {"SENT", "INBOX", item[u][m]}
      BY <2>5 DEF Delivery, MailboxInv, Types, TypeOK
    <3> QED
      BY <2>3, <3>1, <3>2 DEF ItemStays, Absent
  <2> QED
    BY <2>4, <2>5, ItemsUnchanged
<1>2. ASSUME Move(r) PROVE ItemStays(u, m)
  <2>1. PICK v \in Members : req[r].user = {v}
    BY <1>2 DEF Move, MailboxInv, Calls, Shape, Idle, At
  <2>2. Ready(r) /\ req[r].folder # Absent
    BY <1>2, OnTime, IdleType DEF Move, At, MailboxInv, Calls, Shape
  <2>3. item[v][m] = "QUARANTINE" /\ m \in req[r].messages => req[r].folder = "TRASH"
    BY <1>2, <2>1, <2>2 DEF Move, Ready, At
  <2>4. item' = [item EXCEPT ![v] = [n \in Messages |->
                   IF n \in req[r].messages /\ @[n] # Absent THEN req[r].folder ELSE @[n]]]
    BY <1>2, <2>1, HolderIs DEF Move
  <2>5. item'[u][m] = IF u = v /\ m \in req[r].messages /\ item[u][m] # Absent
                      THEN req[r].folder ELSE item[u][m]
    BY <2>4 DEF MailboxInv, Types, TypeOK
  <2>6. status' = status
    BY <1>2 DEF Move
  <2> QED
    BY <2>2, <2>3, <2>5, <2>6 DEF ItemStays
<1>3. ASSUME Purge(r) PROVE ItemStays(u, m)
  <2>1. PICK v \in Members : req[r].user = {v}
    BY <1>3 DEF Purge, MailboxInv, Calls, Shape, Idle, At
  <2>2. Ready(r)
    BY <1>3, OnTime, IdleType DEF Purge, At
  <2>3. m \in req[r].messages => item[v][m] = "TRASH"
    BY <1>3, <2>1, <2>2 DEF Purge, Ready, At
  <2>4. item' = [item EXCEPT ![v] = [n \in Messages |->
                   IF n \in req[r].messages THEN Absent ELSE @[n]]]
    BY <1>3, <2>1, HolderIs DEF Purge
  <2>5. item'[u][m] = IF u = v /\ m \in req[r].messages THEN Absent ELSE item[u][m]
    BY <2>4 DEF MailboxInv, Types, TypeOK
  <2>6. status' = status
    BY <1>3 DEF Purge
  <2> QED
    BY <2>3, <2>5, <2>6 DEF ItemStays
<1>4. ASSUME Discard(r) PROVE ItemStays(u, m)
  <2>1. CASE Answer(r) /\ UNCHANGED <<content, box>>
    BY <2>1, ItemsUnchanged DEF content
  <2>2. CASE Erase(req[r].messages) /\ req' = [req EXCEPT ![r].pc = "unlink"]
    <3>1. Ready(r)
      BY <1>4, <2>2, OnTime, IdleType DEF Discard, At
    <3>2. \A n \in req[r].messages : status[n] = "DRAFT"
      BY <1>4, <3>1 DEF Discard, Ready, At
    <3> QED
      BY <1>0, <2>2, <3>2, ItemsByErase
  <2> QED
    BY <1>4, <2>1, <2>2 DEF Discard
<1>5. ASSUME Retain(r) PROVE ItemStays(u, m)
  <2>1. Ready(r)
    BY <1>5, OnTime, IdleType DEF Retain, At
  <2>2. \A n \in req[r].messages : status[n] = "SENT"
    BY <1>5, <2>1 DEF Retain, Ready, At
  <2> QED
    BY <1>0, <1>5, <2>2, ItemsByErase DEF Retain
<1>6. ASSUME Drop(r) PROVE ItemStays(u, m)
  <2>1. PICK v \in Members : req[r].user = {v}
    BY <1>6 DEF Drop, MailboxInv, Calls, Shape, Idle, At
  <2>2. Ready(r)
    BY <1>6, OnTime, IdleType DEF Drop, At
  <2>3. item[v][m] = Absent
    BY <1>6, <2>1, <2>2 DEF Drop, Ready, At
  <2>4. \/ item' = [item EXCEPT ![v] = [n \in Messages |-> Absent]]
        \/ item' = item
    BY <1>6, <2>1, HolderIs DEF Drop
  <2>5. item'[u][m] = item[u][m]
    <3>1. CASE u = v
      BY <2>3, <2>4, <3>1 DEF MailboxInv, Types, TypeOK
    <3>2. CASE u # v
      BY <2>4, <3>2 DEF MailboxInv, Types, TypeOK
    <3> QED
      BY <3>1, <3>2
  <2>6. status' = status
    BY <1>6 DEF Drop
  <2> QED
    BY <2>5, <2>6 DEF ItemStays
<1>7. ASSUME \/ Attach(r) \/ Detach(r) \/ Unlink(r) \/ Limit(r) \/ Crash(r)
             \/ AttachFails(r) \/ UnlinkFails(r) \/ RolledBack(r)
      PROVE  ItemStays(u, m)
  <2>1. UNCHANGED <<status, item>>
    BY <1>7 DEF Attach, Detach, Unlink, Limit, Crash, AttachFails, UnlinkFails, RolledBack, content
  <2> QED
    BY <2>1, ItemsUnchanged
<1> QED
  BY <1>1, <1>2, <1>3, <1>4, <1>5, <1>6, <1>7 DEF WriteStep

\* Whatever members, the scheduler, retention and the provider do at the same time: what is in a
\* folder leaves the mailbox only from TRASH or with its message, quarantined mail is not moved
\* back, and what is scheduled is not deleted, unless the request was overtaken.
THEOREM ItemsStayPut == Spec => ItemsKept
<1>1. ASSUME MailboxInv, Next, ~ALateOneActs, NEW u \in Members, NEW m \in Messages
      PROVE  ItemStays(u, m)
  <2>1. CASE MessageStep
    BY <1>1, <2>1, ItemsByMessages
  <2>2. ASSUME NEW r \in Requests, ReadStep(r) PROVE ItemStays(u, m)
    BY <1>1, <2>2, ItemsByReads, ItemsUnchanged
  <2>3. ASSUME NEW r \in Requests, WriteStep(r) PROVE ItemStays(u, m)
    BY <1>1, <2>3, ItemsByWrites
  <2> QED
    BY <1>1, <2>1, <2>2, <2>3 DEF Next
<1>2. MailboxInv /\ [Next]_vars =>
        [\/ ALateOneActs
         \/ \A u \in Members, m \in Messages :
              /\ item'[u][m] = Absent /\ status'[m] # "gone" => item[u][m] \in {Absent, "TRASH"}
              /\ item[u][m] = "QUARANTINE" /\ status'[m] = status[m] =>
                   item'[u][m] \in {"QUARANTINE", "TRASH", Absent}
              /\ status[m] = "SCHEDULED" => status'[m] # "gone"]_vars
  BY <1>1 DEF ItemStays
<1> QED
  BY <1>2, MailboxInvHolds, PTL DEF Spec, ItemsKept

-----------------------------------------------------------------------------
(* Attachments and their files                                             *)

AttachmentsStay(m) == status[m] \in {"SCHEDULED", "SENT"} /\ status'[m] # "gone" => Of(m)' = Of(m)

LEMMA RowsUnchanged ==
  ASSUME NEW m \in Messages, \A a \in Attachments : row'[a] = m <=> row[a] = m
  PROVE  AttachmentsStay(m)
  BY DEF AttachmentsStay, Of

LEMMA MessageRows ==
  ASSUME MessageStep PROVE UNCHANGED <<row, files, box, req>>
  BY DEF MessageStep, CreateDraft, Schedule, Verdict, Deliver, EmptyTrash

LEMMA AttachmentsByWrites ==
  ASSUME MailboxInv, NEW r \in Requests, WriteStep(r), ~ALateOneActs, NEW m \in Messages
  PROVE  AttachmentsStay(m)
<1>0. req[r].messages \subseteq Messages
  BY DEF MailboxInv, Types, RequestType
<1>1. ASSUME Attach(r) \/ AttachFails(r) PROVE AttachmentsStay(m)
  <2>1. PICK n \in Messages, a \in Attachments :
           /\ req[r].user = {Author[n]} /\ req[r].messages = {n} /\ req[r].files = {a}
           /\ row[a] = New /\ a \in files /\ files' \in {files, files \ {a}}
           /\ \/ /\ Fits(Author[n]) /\ status[n] # "gone"
                 /\ row' = [row EXCEPT ![a] = n] /\ (faults' = faults => files' = files)
                 /\ box' = [box EXCEPT ![Author[n]].used = @ + 1]
              \/ /\ row' = [row EXCEPT ![a] = Past] /\ box' = box
                 /\ (faults' = faults => files' = files \ {a})
    BY <1>1, AttachDoes
  <2>2. Ready(r)
    BY <1>1, OnTime, IdleType DEF Attach, AttachFails, At
  <2>3. status[n] = "DRAFT"
    BY <1>1, <2>1, <2>2 DEF Attach, AttachFails, Ready, At
  <2>4. row'[a] \in {n, Past} /\ \A b \in Attachments : b # a => row'[b] = row[b]
    BY <2>1 DEF MailboxInv, Types, TypeOK
  <2>5. CASE m = n
    BY <2>3, <2>5 DEF AttachmentsStay
  <2>6. CASE m # n
    BY <2>1, <2>4, <2>6, RowsUnchanged
  <2> QED
    BY <2>5, <2>6
<1>2. ASSUME Detach(r) PROVE AttachmentsStay(m)
  <2>1. PICK n \in Messages, a \in Attachments :
           /\ req[r].user = {Author[n]} /\ req[r].messages = {n} /\ req[r].files = {a}
           /\ \/ /\ row[a] = n /\ row' = [row EXCEPT ![a] = Past]
                 /\ box' = [box EXCEPT ![Author[n]].used = @ - 1]
                 /\ req' = [req EXCEPT ![r].pc = "unlink"]
              \/ /\ ~(row[a] = n /\ box[Author[n]].gen = req[r].box)
                 /\ Answer(r) /\ UNCHANGED <<row, box>>
    BY <1>2, DetachDoes
  <2>2. Ready(r)
    BY <1>2, <2>1, OnTime, IdleType DEF Detach, At
  <2>3. status[n] = "DRAFT"
    BY <1>2, <2>1, <2>2 DEF Detach, Ready, At
  <2>4. CASE m = n
    BY <2>3, <2>4 DEF AttachmentsStay
  <2>5. CASE m # n
    <3>1. \A b \in Attachments : row'[b] = row[b] \/ (row[b] = n /\ row'[b] = Past)
      BY <2>1 DEF MailboxInv, Types, TypeOK
    <3> QED
      BY <2>5, <3>1, RowsUnchanged
  <2> QED
    BY <2>4, <2>5
<1>3. ASSUME Erase(req[r].messages) PROVE AttachmentsStay(m)
  <2>1. CASE m \in req[r].messages
    BY <1>3, <2>1 DEF Erase, AttachmentsStay
  <2>2. CASE m \notin req[r].messages
    BY <1>0, <1>3, <2>2, RowsUnchanged DEF Erase
  <2> QED
    BY <2>1, <2>2
<1>4. ASSUME UNCHANGED row PROVE AttachmentsStay(m)
  BY <1>4, RowsUnchanged
<1>5. ASSUME Discard(r) \/ Retain(r) PROVE AttachmentsStay(m)
  BY <1>3, <1>4, <1>5 DEF Discard, Retain, content
<1>6. ASSUME NEW to \in SUBSET Members, Send(r, to) PROVE AttachmentsStay(m)
  BY <1>4, <1>6 DEF Send
<1>7. ASSUME \/ Move(r) \/ Purge(r) \/ Unlink(r) \/ Limit(r) \/ Drop(r)
             \/ UnlinkFails(r) \/ RolledBack(r)
      PROVE  AttachmentsStay(m)
  BY <1>4, <1>7 DEF Move, Purge, Unlink, Limit, Drop, UnlinkFails, RolledBack, content
<1>8. ASSUME Crash(r) PROVE AttachmentsStay(m)
  <2>1. \A a \in Attachments : At(r, "attach") /\ a \in req[r].files => row[a] = New
    BY DEF MailboxInv, FilesInv, InHand
  <2>2. \A a \in Attachments : row'[a] = row[a] \/ (row[a] = New /\ row'[a] = Past)
    BY <1>8, <2>1 DEF Crash
  <2> QED
    BY <2>2, RowsUnchanged
<1> QED
  BY <1>1, <1>2, <1>5, <1>6, <1>7, <1>8 DEF WriteStep

\* A message keeps the attachments with which it was scheduled or sent, whoever edits, discards
\* or cleans up at the same time, unless the request was overtaken.
THEOREM SentStaysComplete == Spec => SentUnchanged
<1>1. ASSUME MailboxInv, Next, ~ALateOneActs, NEW m \in Messages PROVE AttachmentsStay(m)
  <2>1. CASE MessageStep
    BY <2>1, MessageRows, RowsUnchanged
  <2>2. ASSUME NEW r \in Requests, ReadStep(r) PROVE AttachmentsStay(m)
    BY <2>2, ItemsByReads, RowsUnchanged
  <2>3. ASSUME NEW r \in Requests, WriteStep(r) PROVE AttachmentsStay(m)
    BY <1>1, <2>3, AttachmentsByWrites
  <2> QED
    BY <1>1, <2>1, <2>2, <2>3 DEF Next
<1>2. MailboxInv /\ [Next]_vars =>
        [\/ ALateOneActs
         \/ \A m \in Messages :
              status[m] \in {"SCHEDULED", "SENT"} /\ status'[m] # "gone" => Of(m)' = Of(m)]_vars
  BY <1>1 DEF AttachmentsStay
<1> QED
  BY <1>2, MailboxInvHolds, PTL DEF Spec, SentUnchanged

\* The files that nothing names.
Unnamed(f) == f \in files /\ row[f] \notin Messages /\ \A r \in Requests : f \notin req[r].files

LEMMA UnnamedIs ==
  ASSUME Types, NEW f PROVE f \in files \ (Linked \cup Held) <=> Unnamed(f)
<1>1. f \in Held <=> \E r \in Requests : f \in req[r].files
  BY DEF Held
<1>2. f \in files => f \in Attachments
  BY DEF Types, TypeOK
<1> QED
  BY <1>1, <1>2 DEF Linked, Unnamed

LEMMA UnnamedIsNext ==
  ASSUME Types', NEW f PROVE f \in (files \ (Linked \cup Held))' <=> Unnamed(f)'
<1>1. f \in Held' <=> \E r \in Requests : f \in req'[r].files
  BY DEF Held
<1>2. f \in files' => f \in Attachments
  BY DEF Types, TypeOK
<1> QED
  BY <1>1, <1>2 DEF Linked, Unnamed

LEMMA UnnamedByReads ==
  ASSUME MailboxInv, NEW r \in Requests, ReadStep(r), faults' = faults,
         NEW f \in Attachments, Unnamed(f)'
  PROVE  Unnamed(f)
<1>1. ASSUME NEW q, Begin(r, q), files' = files PROVE Unnamed(f)
  <2>1. req[r].files = {} /\ \A p \in Requests : p # r => req'[p] = req[p]
    BY <1>1, IdleType DEF Begin, MailboxInv, Types
  <2> QED
    BY <1>1, <2>1 DEF Unnamed, Begin, content
<1>2. ASSUME NEW m \in Messages, NEW a \in Attachments, AttachRead(r, m, a) PROVE Unnamed(f)
  <2> DEFINE q == [Idle EXCEPT !.pc = "attach", !.user = {Author[m]}, !.messages = {m},
                               !.files = {a}, !.box = box[Author[m]].gen]
  <2>1. q.files = {a}
    BY DEF Idle
  <2>2. Begin(r, q) /\ files' = files \cup {a}
    BY <1>2 DEF AttachRead
  <2> HIDE DEF q
  <2>3. req[r].files = {} /\ req'[r] = q /\ \A p \in Requests : p # r => req'[p] = req[p]
    BY <2>2, IdleType DEF Begin, MailboxInv, Types
  <2> QED
    BY <2>1, <2>2, <2>3 DEF Unnamed, Begin, content
<1>3. (\E q : Begin(r, q) /\ files' = files)
        \/ \E m \in Messages, a \in Attachments : AttachRead(r, m, a)
  <2>1. \A m \in Messages, a \in Attachments : ~SaveFails(m, a)
    BY DEF SaveFails, MailboxInv, Types, TypeOK
  <2> QED
    BY <2>1 DEF ReadStep, MoveRead, PurgeRead, DetachRead, DiscardRead, SendRead, RetainRead,
         LimitRead, DropRead
<1> QED
  BY <1>1, <1>2, <1>3

\* A request that answers lets its files go only when they are linked or no longer there.
LEMMA UnnamedByAnswer ==
  ASSUME MailboxInv, NEW r \in Requests, Answer(r), row' = row, files' = files,
         req[r].files = {}, NEW f, Unnamed(f)'
  PROVE  Unnamed(f)
<1>1. \A p \in Requests : p # r => req'[p] = req[p]
  BY DEF Answer, MailboxInv, Types
<1> QED
  BY <1>1 DEF Unnamed

\* A request goes on with its files.
LEMMA UnnamedByUnlink ==
  ASSUME MailboxInv, NEW r \in Requests, req' = [req EXCEPT ![r].pc = "unlink"], files' = files,
         NEW f \in Attachments, row'[f] # row[f] => f \in req[r].files, Unnamed(f)'
  PROVE  Unnamed(f)
<1>1. PICK q \in RequestType :
           /\ req' = [req EXCEPT ![r] = q]
           /\ req'[r] = q /\ q.pc = "unlink" /\ q.files = req[r].files
           /\ \A p \in Requests : p # r => req'[p] = req[p]
  BY UnlinkFields DEF MailboxInv
<1>2. \A p \in Requests : req'[p].files = req[p].files
  BY <1>1
<1> QED
  BY <1>2 DEF Unnamed

LEMMA UnnamedByErase ==
  ASSUME MailboxInv, NEW r \in Requests, Ready(r), req[r].pc \in {"discard", "retain"},
         Erase(req[r].messages), req' = [req EXCEPT ![r].pc = "unlink"], files' = files,
         NEW f \in Attachments, Unnamed(f)'
  PROVE  Unnamed(f)
<1>1. row'[f] # row[f] => f \in req[r].files
  BY DEF Erase, Ready
<1> QED
  BY <1>1, UnnamedByUnlink

LEMMA UnnamedByAttach ==
  ASSUME MailboxInv, NEW r \in Requests, Attach(r), faults' = faults,
         NEW f \in Attachments, Unnamed(f)'
  PROVE  Unnamed(f)
<1>1. PICK n \in Messages, a \in Attachments :
           /\ req[r].user = {Author[n]} /\ req[r].messages = {n} /\ req[r].files = {a}
           /\ row[a] = New /\ a \in files /\ files' \in {files, files \ {a}}
           /\ \/ /\ Fits(Author[n]) /\ status[n] # "gone"
                 /\ row' = [row EXCEPT ![a] = n] /\ (faults' = faults => files' = files)
                 /\ box' = [box EXCEPT ![Author[n]].used = @ + 1]
              \/ /\ row' = [row EXCEPT ![a] = Past] /\ box' = box
                 /\ (faults' = faults => files' = files \ {a})
  BY AttachDoes
<1>2. \A p \in Requests : p # r => req'[p] = req[p]
  BY DEF Attach, Answer, MailboxInv, Types
<1>3. \/ row'[a] = n /\ files' = files
      \/ files' = files \ {a}
  BY <1>1 DEF MailboxInv, Types, TypeOK
<1>4. \A b \in Attachments : b # a => row'[b] = row[b]
  BY <1>1 DEF MailboxInv, Types, TypeOK
<1>5. f # a
  BY <1>3 DEF Unnamed
<1> QED
  BY <1>1, <1>2, <1>3, <1>4, <1>5 DEF Unnamed

LEMMA UnnamedByDetach ==
  ASSUME MailboxInv, NEW r \in Requests, Detach(r), ~ALateOneActs, NEW f \in Attachments,
         Unnamed(f)'
  PROVE  Unnamed(f)
<1>1. PICK n \in Messages, a \in Attachments :
           /\ req[r].user = {Author[n]} /\ req[r].messages = {n} /\ req[r].files = {a}
           /\ \/ /\ row[a] = n /\ row' = [row EXCEPT ![a] = Past]
                 /\ box' = [box EXCEPT ![Author[n]].used = @ - 1]
                 /\ req' = [req EXCEPT ![r].pc = "unlink"]
              \/ /\ ~(row[a] = n /\ box[Author[n]].gen = req[r].box)
                 /\ Answer(r) /\ UNCHANGED <<row, box>>
  BY DetachDoes
<1>2. Ready(r)
  BY <1>1, OnTime, IdleType DEF Detach, At
<1>3. row[a] = n /\ box[Author[n]].gen = req[r].box
  BY <1>1, <1>2 DEF Detach, Ready, At
<1>4. row' = [row EXCEPT ![a] = Past] /\ req' = [req EXCEPT ![r].pc = "unlink"]
  BY <1>1, <1>3
<1>5. row'[f] # row[f] => f \in req[r].files
  BY <1>1, <1>4 DEF MailboxInv, Types, TypeOK
<1>6. files' = files
  BY DEF Detach
<1> QED
  BY <1>4, <1>5, <1>6, UnnamedByUnlink

LEMMA UnnamedByWrites ==
  ASSUME MailboxInv, NEW r \in Requests, WriteStep(r), ~ALateOneActs,
         crashes' = crashes, faults' = faults, NEW f \in Attachments, Unnamed(f)'
  PROVE  Unnamed(f)
<1>1. ASSUME Discard(r) PROVE Unnamed(f)
  <2>1. Ready(r) /\ req[r].pc = "discard" /\ files' = files
    BY <1>1, OnTime, IdleType DEF Discard, At
  <2>2. PICK m \in Messages : req[r].user = {Author[m]} /\ req[r].messages = {m}
    BY <2>1 DEF MailboxInv, Calls, Shape, Idle, At
  <2>3. status[m] = "DRAFT" /\ box[Author[m]].gen = req[r].box
    BY <2>1, <2>2 DEF Ready
  <2>4. Holder(r) = Author[m]
    BY <2>2, HolderIs
  <2>5. Erase(req[r].messages) /\ req' = [req EXCEPT ![r].pc = "unlink"]
    BY <1>1, <2>2, <2>3, <2>4 DEF Discard
  <2> QED
    BY <2>1, <2>5, UnnamedByErase
<1>2. ASSUME Retain(r) PROVE Unnamed(f)
  <2>1. /\ Ready(r) /\ req[r].pc = "retain" /\ files' = files
        /\ Erase(req[r].messages) /\ req' = [req EXCEPT ![r].pc = "unlink"]
    BY <1>2, OnTime, IdleType DEF Retain, At
  <2> QED
    BY <2>1, UnnamedByErase
<1>3. ASSUME Unlink(r) PROVE Unnamed(f)
  <2>1. files' = files \ req[r].files /\ row' = row /\ \A p \in Requests : p # r => req'[p] = req[p]
    BY <1>3 DEF Unlink, Kept, Answer, content, MailboxInv, Types
  <2> QED
    BY <2>1 DEF Unnamed
<1>4. ASSUME NEW to \in SUBSET Members, Send(r, to) PROVE Unnamed(f)
  <2>1. Answer(r) /\ row' = row /\ files' = files /\ At(r, "send")
    BY <1>4 DEF Send
  <2>2. req[r].files = {}
    BY <2>1 DEF MailboxInv, Calls, Shape, Idle, At
  <2> QED
    BY <2>1, <2>2, UnnamedByAnswer
<1>5. ASSUME Move(r) \/ Purge(r) \/ Limit(r) \/ Drop(r) PROVE Unnamed(f)
  <2>1. /\ Answer(r) /\ row' = row /\ files' = files
        /\ req[r].pc \in {"move", "purge", "limit", "drop"}
    BY <1>5 DEF Move, Purge, Limit, Drop, content, At
  <2>2. req[r].files = {}
    BY <2>1 DEF MailboxInv, Calls, Shape, Idle, At
  <2> QED
    BY <2>1, <2>2, UnnamedByAnswer
<1>6. ~Crash(r) /\ ~AttachFails(r) /\ ~UnlinkFails(r) /\ ~RolledBack(r)
  BY DEF Crash, AttachFails, UnlinkFails, RolledBack, MailboxInv, Types, TypeOK
<1> QED
  BY <1>1, <1>2, <1>3, <1>4, <1>5, <1>6, UnnamedByAttach, UnnamedByDetach DEF WriteStep

\* A request that changes its own state.
LEMMA Acted ==
  ASSUME MailboxInv, NEW r \in Requests, Answer(r), req[r] # Idle
  PROVE  Acts(r)
  BY DEF Answer, Acts, MailboxInv, Types

\* An attachment whose file is no longer there.
LEMMA LinkedKeepsFile ==
  ASSUME MailboxInv, Next, NEW f \in Attachments,
         row'[f] \in Messages, f \notin files', row[f] \notin Messages \/ f \in files
  PROVE  \E r \in Requests : At(r, "attach") /\ Acts(r) /\ faults' # faults
<1>1. CASE MessageStep
  BY <1>1, MessageRows
<1>2. ASSUME NEW r \in Requests, ReadStep(r) PROVE FALSE
  <2>1. row' = row
    BY <1>2, ItemsByReads
  <2>2. files \subseteq files'
    BY <1>2 DEF ReadStep, MoveRead, PurgeRead, AttachRead, DetachRead, DiscardRead, SendRead,
                RetainRead, LimitRead, DropRead, SaveFails
  <2> QED
    BY <2>1, <2>2
<1>3. ASSUME NEW r \in Requests, Attach(r) \/ AttachFails(r)
      PROVE  At(r, "attach") /\ Acts(r) /\ faults' # faults
  <2>1. PICK n \in Messages, a \in Attachments :
           /\ req[r].user = {Author[n]} /\ req[r].messages = {n} /\ req[r].files = {a}
           /\ row[a] = New /\ a \in files /\ files' \in {files, files \ {a}}
           /\ \/ /\ Fits(Author[n]) /\ status[n] # "gone"
                 /\ row' = [row EXCEPT ![a] = n] /\ (faults' = faults => files' = files)
                 /\ box' = [box EXCEPT ![Author[n]].used = @ + 1]
              \/ /\ row' = [row EXCEPT ![a] = Past] /\ box' = box
                 /\ (faults' = faults => files' = files \ {a})
    BY <1>3, AttachDoes
  <2>2. At(r, "attach") /\ Answer(r) /\ req[r] # Idle
    BY <1>3, IdleType DEF Attach, AttachFails, At
  <2>3. \A b \in Attachments : b # a => row'[b] = row[b]
    BY <2>1 DEF MailboxInv, Types, TypeOK
  <2>4. f = a
    BY <2>1, <2>3
  <2>5. row' # [row EXCEPT ![a] = Past]
    BY <2>4 DEF MailboxInv, Types, TypeOK
  <2> QED
    BY <2>1, <2>2, <2>4, <2>5, Acted
<1>4. ASSUME NEW r \in Requests, Unlink(r) \/ UnlinkFails(r) PROVE FALSE
  <2>1. row' = row /\ At(r, "unlink") /\ f \in files \ files' => f \in req[r].files
    BY <1>4 DEF Unlink, UnlinkFails, Kept, content
  <2>2. row' = row /\ At(r, "unlink")
    BY <1>4 DEF Unlink, UnlinkFails, content
  <2> QED
    BY <2>1, <2>2 DEF MailboxInv, FilesInv, InHand
<1>5. ASSUME NEW r \in Requests, files' = files, row'[f] \in {row[f], Past} PROVE FALSE
  BY <1>5
<1>6. ASSUME NEW r \in Requests,
             \/ \E to \in SUBSET Members : Send(r, to)
             \/ Move(r) \/ Purge(r) \/ Detach(r) \/ Discard(r) \/ Retain(r) \/ Limit(r) \/ Drop(r)
             \/ RolledBack(r) \/ Crash(r)
      PROVE  FALSE
  <2>1. files' = files
    BY <1>6 DEF Send, Move, Purge, Detach, Discard, Retain, Limit, Drop, RolledBack, Crash
  <2>2. row'[f] \in {row[f], Past}
    BY <1>6 DEF Send, Move, Purge, Detach, Discard, Retain, Limit, Drop, RolledBack, Crash, Erase,
                content
  <2> QED
    BY <1>5, <2>1, <2>2
<1> QED
  BY <1>1, <1>2, <1>3, <1>4, <1>6 DEF Next, WriteStep

\* An attachment keeps its file unless its upload is taken to have failed and has not, and a file
\* that no attachment names is in the hands of a request that is going to link or to delete it:
\* only a crash, a failing transaction or file operation, or a request that was overtaken, leaves
\* one behind.
THEOREM FilesAreNamed == Spec => FilesHaveRows
<1>1. ASSUME MailboxInv, MailboxInv', Next, ~ALateOneActs, crashes' = crashes, faults' = faults
      PROVE  Strays' \subseteq Strays
  <2>1. ASSUME NEW f \in Attachments, Unnamed(f)' PROVE Unnamed(f)
    <3>1. CASE MessageStep
      BY <2>1, <3>1, MessageRows DEF Unnamed
    <3>2. ASSUME NEW r \in Requests, ReadStep(r) PROVE Unnamed(f)
      BY <1>1, <2>1, <3>2, UnnamedByReads
    <3>3. ASSUME NEW r \in Requests, WriteStep(r) PROVE Unnamed(f)
      BY <1>1, <2>1, <3>3, UnnamedByWrites
    <3> QED
      BY <1>1, <3>1, <3>2, <3>3 DEF Next
  <2>2. ASSUME NEW f \in Strays' PROVE f \in Strays
    <3>1. Unnamed(f)'
      BY <1>1, <2>2, UnnamedIsNext DEF MailboxInv, Strays
    <3>2. f \in Attachments
      BY <1>1, <3>1 DEF Unnamed, MailboxInv, Types, TypeOK
    <3> QED
      BY <1>1, <2>1, <3>1, <3>2, UnnamedIs DEF MailboxInv, Strays
  <2> QED
    BY <2>2
<1>2. ASSUME MailboxInv, Next
      PROVE  \/ (Linked \ files)' \subseteq Linked \ files
             \/ \E r \in Requests : At(r, "attach") /\ Acts(r) /\ faults' # faults
  BY <1>2, LinkedKeepsFile DEF Linked
<1>3. MailboxInv /\ MailboxInv' /\ [Next]_vars =>
        [/\ \/ (Linked \ files)' \subseteq Linked \ files
            \/ \E r \in Requests : At(r, "attach") /\ Acts(r) /\ faults' # faults
         /\ \/ Strays' \subseteq Strays
            \/ ALateOneActs \/ crashes' # crashes \/ faults' # faults]_vars
  BY <1>1, <1>2
<1> QED
  BY <1>3, MailboxInvHolds, PTL DEF Spec, FilesHaveRows

-----------------------------------------------------------------------------
(* The bytes of a mailbox                                                  *)

Mine(u) == {a \in Attachments : row[a] \in Messages /\ Author[row[a]] = u}

Accounts(u) == Drift(u)' = Drift(u) \/ Drift(u)' \in Drift(u)..0
Fitting(u) == box[u].used <= box[u].limit => box'[u].used <= box'[u].limit

LEMMA MineIs ==
  ASSUME NEW u
  PROVE  /\ IsFiniteSet(Mine(u)) /\ Bytes(u) = Cardinality(Mine(u)) /\ Bytes(u) \in Nat
         /\ IsFiniteSet(Mine(u)') /\ Bytes(u)' = Cardinality(Mine(u)') /\ Bytes(u)' \in Nat
<1>1. Mine(u) \subseteq Attachments /\ Mine(u)' \subseteq Attachments
  BY DEF Mine
<1>2. IsFiniteSet(Mine(u)) /\ IsFiniteSet(Mine(u)')
  BY <1>1, FS_Subset
<1>3. Bytes(u) = Cardinality(Mine(u)) /\ Bytes(u)' = Cardinality(Mine(u)')
  BY DEF Bytes, Mine
<1> QED
  BY <1>2, <1>3, FS_CardinalityType

LEMMA BytesSame ==
  ASSUME NEW u,
         \A a \in Attachments :
           row'[a] = row[a] \/ (row[a] \notin Messages /\ row'[a] \notin Messages)
  PROVE  Bytes(u)' = Bytes(u)
<1>1. Mine(u)' = Mine(u)
  BY DEF Mine
<1> QED
  BY <1>1, MineIs

LEMMA BytesLess ==
  ASSUME NEW u, NEW S \in SUBSET Mine(u), Mine(u)' = Mine(u) \ S
  PROVE  Bytes(u)' = Bytes(u) - Cardinality(S) /\ Cardinality(S) \in Nat
<1>1. Cardinality(Mine(u) \ S) = Cardinality(Mine(u)) - Cardinality(Mine(u) \cap S)
  BY MineIs, FS_Difference
<1>2. Mine(u) \cap S = S /\ IsFiniteSet(S)
  BY MineIs, FS_Subset
<1> QED
  BY <1>1, <1>2, MineIs, FS_CardinalityType

\* A step that leaves the bytes and what is said of them alone.
LEMMA NothingMoves ==
  ASSUME Types, NEW u \in Members, Bytes(u)' = Bytes(u), box'[u].used = box[u].used
  PROVE  Accounts(u)
  BY DEF Accounts, Drift

LEMMA BoxUnchanged ==
  ASSUME Types, NEW u \in Members, box' = box, row' = row
  PROVE  Accounts(u) /\ Fitting(u)
  BY BytesSame, NothingMoves DEF Fitting

LEMMA AttachAccounts ==
  ASSUME MailboxInv, NEW r \in Requests, Attach(r) \/ AttachFails(r), NEW u \in Members
  PROVE  Accounts(u) /\ Fitting(u)
<1>1. PICK m \in Messages, a \in Attachments :
           /\ req[r].user = {Author[m]} /\ req[r].messages = {m} /\ req[r].files = {a}
           /\ row[a] = New /\ a \in files /\ files' \in {files, files \ {a}}
           /\ \/ /\ Fits(Author[m]) /\ status[m] # "gone"
                 /\ row' = [row EXCEPT ![a] = m] /\ (faults' = faults => files' = files)
                 /\ box' = [box EXCEPT ![Author[m]].used = @ + 1]
              \/ /\ row' = [row EXCEPT ![a] = Past] /\ box' = box
                 /\ (faults' = faults => files' = files \ {a})
  BY AttachDoes
<1>2. \A b \in Attachments : b # a => row'[b] = row[b]
  BY <1>1 DEF MailboxInv, Types, TypeOK
<1>3. CASE row' = [row EXCEPT ![a] = Past] /\ box' = box
  <2>1. row'[a] = Past
    BY <1>3 DEF MailboxInv, Types, TypeOK
  <2>2. Bytes(u)' = Bytes(u)
    BY <1>1, <1>2, <2>1, BytesSame
  <2> QED
    BY <1>3, <2>2, NothingMoves DEF MailboxInv, Fitting
<1>4. CASE /\ Fits(Author[m]) /\ row' = [row EXCEPT ![a] = m]
           /\ box' = [box EXCEPT ![Author[m]].used = @ + 1]
  <2> DEFINE v == Author[m]
  <2>1. v \in Members /\ box[v].used \in Int /\ box[v].used + 1 \in Int
    BY BoxFields DEF MailboxInv
  <2>2. row'[a] = m
    BY <1>4 DEF MailboxInv, Types, TypeOK
  <2> HIDE DEF v
  <2>3. box' = [box EXCEPT ![v].used = box[v].used + 1]
    BY <1>4 DEF v
  <2>4. /\ box'[v].used = box[v].used + 1 /\ box'[v].limit = box[v].limit
        /\ \A w \in Members : w # v => box'[w] = box[w]
    BY <2>1, <2>3, UsedTypes DEF MailboxInv
  <2>5. CASE u = v
    <3>1. a \notin Mine(u) /\ Mine(u)' = Mine(u) \cup {a}
      BY <1>1, <1>2, <2>2, <2>5 DEF Mine, v
    <3>2. Bytes(u)' = Bytes(u) + 1 /\ Bytes(u) \in Nat
      BY <3>1, MineIs, FS_AddElement
    <3>3. box[u].used + 1 <= box[u].limit
      BY <1>4, <2>5 DEF Fits, v
    <3> QED
      BY <2>1, <2>4, <2>5, <3>2, <3>3 DEF Accounts, Fitting, Drift
  <2>6. CASE u # v
    <3>1. Mine(u)' = Mine(u)
      BY <1>1, <1>2, <2>2, <2>6 DEF Mine, v
    <3> QED
      BY <2>4, <2>6, <3>1, MineIs, NothingMoves DEF MailboxInv, Fitting
  <2> QED
    BY <2>5, <2>6
<1> QED
  BY <1>1, <1>3, <1>4

LEMMA DetachAccounts ==
  ASSUME MailboxInv, NEW r \in Requests, Detach(r), NEW u \in Members
  PROVE  Accounts(u) /\ Fitting(u)
<1>1. PICK m \in Messages, a \in Attachments :
           /\ req[r].user = {Author[m]} /\ req[r].messages = {m} /\ req[r].files = {a}
           /\ \/ /\ row[a] = m /\ row' = [row EXCEPT ![a] = Past]
                 /\ box' = [box EXCEPT ![Author[m]].used = @ - 1]
                 /\ req' = [req EXCEPT ![r].pc = "unlink"]
              \/ /\ ~(row[a] = m /\ box[Author[m]].gen = req[r].box)
                 /\ Answer(r) /\ UNCHANGED <<row, box>>
  BY DetachDoes
<1>2. CASE UNCHANGED <<row, box>>
  BY <1>2, BoxUnchanged DEF MailboxInv
<1>3. CASE /\ row[a] = m /\ row' = [row EXCEPT ![a] = Past]
           /\ box' = [box EXCEPT ![Author[m]].used = @ - 1]
  <2> DEFINE v == Author[m]
  <2>1. v \in Members /\ box[v].used \in Int /\ box[v].used - 1 \in Int
    BY BoxFields DEF MailboxInv
  <2>2. row'[a] = Past /\ \A b \in Attachments : b # a => row'[b] = row[b]
    BY <1>3 DEF MailboxInv, Types, TypeOK
  <2> HIDE DEF v
  <2>3. box' = [box EXCEPT ![v].used = box[v].used - 1]
    BY <1>3 DEF v
  <2>4. /\ box'[v].used = box[v].used - 1 /\ box'[v].limit = box[v].limit
        /\ \A w \in Members : w # v => box'[w] = box[w]
    BY <2>1, <2>3, UsedTypes DEF MailboxInv
  <2>5. CASE u = v
    <3>1. a \in Mine(u) /\ Mine(u)' = Mine(u) \ {a}
      BY <1>3, <2>2, <2>5 DEF Mine, v
    <3>2. Bytes(u)' = Bytes(u) - 1 /\ Bytes(u) \in Nat
      BY <3>1, MineIs, FS_RemoveElement
    <3>3. box[u].limit \in Nat
      BY BoxFields DEF MailboxInv
    <3> QED
      BY <2>1, <2>4, <2>5, <3>2, <3>3 DEF Accounts, Fitting, Drift
  <2>6. CASE u # v
    <3>1. Mine(u)' = Mine(u)
      BY <1>3, <2>2, <2>6 DEF Mine, v
    <3> QED
      BY <2>4, <2>6, <3>1, MineIs, NothingMoves DEF MailboxInv, Fitting
  <2> QED
    BY <2>5, <2>6
<1> QED
  BY <1>1, <1>2, <1>3

\* Messages of one author are erased with their attachments, all of which the request has listed.
LEMMA EraseBytes ==
  ASSUME MailboxInv, NEW r \in Requests, Ready(r), req[r].pc \in {"discard", "retain"},
         Erase(req[r].messages), NEW v \in Members, \A m \in req[r].messages : Author[m] = v,
         NEW u \in Members
  PROVE  /\ u = v => Bytes(u)' = Bytes(u) - Freed(r)
         /\ u # v => Bytes(u)' = Bytes(u)
<1>1. req[r].messages \subseteq Messages /\ req[r].files \subseteq Attachments
  BY DEF MailboxInv, Types, RequestType
<1>2. \A a \in Attachments : a \in req[r].files <=> row[a] \in req[r].messages
  BY DEF Ready
<1>3. \A a \in Attachments : row'[a] = IF a \in req[r].files THEN Past ELSE row[a]
  BY <1>2 DEF Erase
<1>4. CASE u = v
  <2>1. req[r].files \subseteq Mine(u)
    BY <1>1, <1>2, <1>4 DEF Mine
  <2>2. Mine(u)' = Mine(u) \ req[r].files
    BY <1>3 DEF Mine
  <2> QED
    BY <1>4, <2>1, <2>2, BytesLess DEF Freed
<1>5. CASE u # v
  <2>1. Mine(u)' = Mine(u)
    BY <1>1, <1>2, <1>3, <1>5 DEF Mine
  <2> QED
    BY <1>5, <2>1, MineIs
<1> QED
  BY <1>4, <1>5

LEMMA DiscardFits ==
  ASSUME MailboxInv, NEW r \in Requests, Discard(r), NEW u \in Members PROVE Fitting(u)
<1>1. PICK v \in Members : req[r].user = {v}
  BY DEF Discard, MailboxInv, Calls, Shape, Idle, At
<1>2. box' = [box EXCEPT ![v].used = box[v].used - Freed(r)] \/ box' = box
  BY <1>1, HolderIs DEF Discard
<1>3. Freed(r) \in Nat /\ box[u].used \in Int /\ box[v].used \in Int /\ box[u].limit \in Nat
  BY FreedIs, BoxFields DEF MailboxInv
<1>4. CASE box' = [box EXCEPT ![v].used = box[v].used - Freed(r)]
  <2>1. box[v].used - Freed(r) \in Int
    BY <1>3
  <2>2. /\ box'[v].used = box[v].used - Freed(r) /\ box'[v].limit = box[v].limit
        /\ \A w \in Members : w # v => box'[w] = box[w]
    BY <1>4, <2>1, UsedTypes DEF MailboxInv
  <2> QED
    BY <1>3, <2>2 DEF Fitting
<1> QED
  BY <1>2, <1>4 DEF Fitting

LEMMA DiscardAccounts ==
  ASSUME MailboxInv, NEW r \in Requests, Discard(r), ~ALateOneActs, NEW u \in Members
  PROVE  Accounts(u)
<1>1. Ready(r) /\ req[r].pc = "discard"
  BY OnTime, IdleType DEF Discard, At
<1>2. PICK m \in Messages : req[r].user = {Author[m]} /\ req[r].messages = {m}
  BY <1>1 DEF MailboxInv, Calls, Shape, Idle, At
<1> DEFINE v == Author[m]
<1>3. v \in Members /\ box[v].used \in Int /\ Freed(r) \in Nat
  BY BoxFields, FreedIs DEF MailboxInv
<1>4. status[m] = "DRAFT" /\ box[v].gen = req[r].box /\ Holder(r) = v
  BY <1>1, <1>2, <1>3, HolderIs DEF Ready
<1>5. Erase(req[r].messages) /\ box' = [box EXCEPT ![v].used = box[v].used - Freed(r)]
  BY <1>2, <1>4 DEF Discard
<1>6. (u = v => Bytes(u)' = Bytes(u) - Freed(r)) /\ (u # v => Bytes(u)' = Bytes(u))
  BY <1>1, <1>2, <1>3, <1>5, EraseBytes
<1> HIDE DEF v
<1>7. box'[v].used = box[v].used - Freed(r) /\ \A w \in Members : w # v => box'[w] = box[w]
  <2>1. box[v].used - Freed(r) \in Int
    BY <1>3
  <2> QED
    BY <1>3, <1>5, <2>1, UsedTypes DEF MailboxInv
<1>8. Bytes(u) \in Nat
  BY MineIs
<1> QED
  BY <1>3, <1>6, <1>7, <1>8 DEF Accounts, Drift

LEMMA RetainFits ==
  ASSUME MailboxInv, NEW r \in Requests, Retain(r), NEW u \in Members PROVE Fitting(u)
<1>1. PICK v \in Members : req[r].user = {v}
  BY DEF Retain, MailboxInv, Calls, Shape, Idle, At
<1> DEFINE x == IF box[v].used > Freed(r) THEN box[v].used - Freed(r) ELSE 0
<1>2. box' = [box EXCEPT ![v].used = x] \/ box' = box
  BY <1>1, HolderIs DEF Retain
<1>3. Freed(r) \in Nat /\ box[u].used \in Int /\ box[v].used \in Int /\ box[u].limit \in Nat
      /\ box[v].limit \in Nat
  BY FreedIs, BoxFields DEF MailboxInv
<1>4. x \in Int /\ (x <= box[v].used \/ x = 0)
  BY <1>3
<1> HIDE DEF x
<1>5. CASE box' = [box EXCEPT ![v].used = x]
  <2>1. /\ box'[v].used = x /\ box'[v].limit = box[v].limit
        /\ \A w \in Members : w # v => box'[w] = box[w]
    BY <1>4, <1>5, UsedTypes DEF MailboxInv
  <2> QED
    BY <1>3, <1>4, <2>1 DEF Fitting
<1> QED
  BY <1>2, <1>5 DEF Fitting

LEMMA RetainAccounts ==
  ASSUME MailboxInv, NEW r \in Requests, Retain(r), ~ALateOneActs, NEW u \in Members
  PROVE  Accounts(u)
<1>1. Ready(r) /\ req[r].pc = "retain" /\ Erase(req[r].messages)
  BY OnTime, IdleType DEF Retain, At
<1>2. PICK v \in Members : req[r].user = {v} /\ \A m \in req[r].messages : Author[m] = v
  BY <1>1 DEF MailboxInv, Calls, Shape, Idle, At
<1>3. box[v].gen = req[r].box /\ Holder(r) = v
  BY <1>1, <1>2, HolderIs DEF Ready
<1> DEFINE x == IF box[v].used > Freed(r) THEN box[v].used - Freed(r) ELSE 0
<1>4. box' = [box EXCEPT ![v].used = x]
  BY <1>3 DEF Retain
<1>5. Freed(r) \in Nat /\ box[v].used \in Int
  BY FreedIs, BoxFields DEF MailboxInv
<1>6. x \in Int /\ (x = box[v].used - Freed(r) \/ (x = 0 /\ box[v].used <= Freed(r)))
  BY <1>5
<1> HIDE DEF x
<1>7. box'[v].used = x /\ \A w \in Members : w # v => box'[w] = box[w]
  BY <1>4, <1>6, UsedTypes DEF MailboxInv
<1>8. (u = v => Bytes(u)' = Bytes(u) - Freed(r)) /\ (u # v => Bytes(u)' = Bytes(u))
  BY <1>1, <1>2, EraseBytes
<1>9. Bytes(u) \in Nat /\ Bytes(u)' \in Nat
  BY MineIs
<1> QED
  BY <1>5, <1>6, <1>7, <1>8, <1>9 DEF Accounts, Drift

LEMMA LimitAccounts ==
  ASSUME MailboxInv, NEW r \in Requests, Limit(r), NEW u \in Members
  PROVE  Accounts(u) /\ (r \notin late => Fitting(u))
<1>1. PICK v \in Members : req[r].user = {v}
  BY DEF Limit, MailboxInv, Calls, Shape, Idle, At
<1>2. \/ box' = [box EXCEPT ![v] = [gen |-> box[v].gen, used |-> box[v].used,
                                    limit |-> req[r].limit]]
      \/ box' = box
  BY <1>1, HolderIs, BoxFields DEF Limit, MailboxInv
<1>3. req[r].limit \in Limits /\ box[v].gen \in Nat /\ box[v].used \in Int
  BY BoxFields DEF Limit, MailboxInv, Calls, Shape, Idle, At
<1>4. \/ /\ box'[v].used = box[v].used /\ box'[v].limit = req[r].limit
         /\ \A w \in Members : w # v => box'[w] = box[w]
      \/ box' = box
  BY <1>2, <1>3, BoxTypes DEF MailboxInv
<1>5. r \notin late => box[v].used <= req[r].limit
  BY <1>1 DEF Limit, MailboxInv, Calls, Ready
<1>6. row' = row
  BY DEF Limit, content
<1>7. box'[u].used = box[u].used
  BY <1>4
<1>8. Accounts(u)
  BY <1>6, <1>7, BytesSame, NothingMoves DEF MailboxInv
<1>9. r \notin late => Fitting(u)
  BY <1>4, <1>5 DEF Fitting
<1> QED
  BY <1>8, <1>9

LEMMA DropFits ==
  ASSUME MailboxInv, NEW r \in Requests, Drop(r), NEW u \in Members PROVE Fitting(u)
<1>1. PICK v \in Members : req[r].user = {v}
  BY DEF Drop, MailboxInv, Calls, Shape, Idle, At
<1>2. \/ box' = [box EXCEPT ![v] = [gen |-> box[v].gen + 1, used |-> 0, limit |-> FirstLimit]]
      \/ box' = box
  BY <1>1, HolderIs DEF Drop
<1>3. box[v].gen + 1 \in Nat
  BY BoxFields DEF MailboxInv
<1>4. \/ /\ box'[v].used = 0 /\ box'[v].limit = FirstLimit
         /\ \A w \in Members : w # v => box'[w] = box[w]
      \/ box' = box
  BY <1>2, <1>3, BoxTypes DEF MailboxInv
<1>5. FirstLimit >= 0
  OBVIOUS
<1> QED
  BY <1>4, <1>5 DEF Fitting

LEMMA CrashAccounts ==
  ASSUME MailboxInv, NEW r \in Requests, Crash(r), NEW u \in Members
  PROVE  Accounts(u) /\ Fitting(u)
<1>1. \A a \in Attachments : At(r, "attach") /\ a \in req[r].files => row[a] = New
  BY DEF MailboxInv, FilesInv, InHand
<1>2. \A a \in Attachments : row'[a] = row[a] \/ (row[a] = New /\ row'[a] = Past)
  BY <1>1 DEF Crash
<1>3. box' = box
  BY DEF Crash
<1>4. Bytes(u)' = Bytes(u)
  BY <1>2, BytesSame
<1> QED
  BY <1>3, <1>4, NothingMoves DEF MailboxInv, Fitting

LEMMA OthersAccount ==
  ASSUME MailboxInv, NEW r \in Requests, NEW u \in Members,
         \/ \E to \in SUBSET Members : Send(r, to)
         \/ Move(r) \/ Purge(r) \/ Unlink(r) \/ UnlinkFails(r) \/ RolledBack(r)
  PROVE  Accounts(u) /\ Fitting(u)
<1>1. row' = row /\ box' = box
  BY DEF Send, Move, Purge, Unlink, UnlinkFails, RolledBack, content
<1> QED
  BY <1>1, BoxUnchanged DEF MailboxInv

LEMMA WritesAccount ==
  ASSUME MailboxInv, NEW r \in Requests, WriteStep(r), NEW u \in Members
  PROVE  /\ Accounts(u) \/ ALateOneActs \/ \E q \in Requests : At(q, "drop") /\ Acts(q)
         /\ Fitting(u) \/ \E q \in late : Acts(q) /\ At(q, "limit")
<1>1. ASSUME Drop(r) PROVE At(r, "drop") /\ Acts(r)
  BY <1>1, Acted, IdleType DEF Drop, At
<1>2. ASSUME Limit(r) PROVE At(r, "limit") /\ Acts(r)
  BY <1>2, Acted, IdleType DEF Limit, At
<1> QED
  BY <1>1, <1>2, AttachAccounts, DetachAccounts, DiscardAccounts, DiscardFits, RetainAccounts,
     RetainFits, LimitAccounts, DropFits, CrashAccounts, OthersAccount DEF WriteStep

\* What a mailbox is said to use moves by what its attachments take, and stays within its limit,
\* whoever uploads, deletes, discards, cleans up or sets the limit at the same time, unless the
\* request was overtaken or the mailbox was deleted.
THEOREM BytesAreAccounted == Spec => StorageAccounted
<1>1. ASSUME MailboxInv, Next, NEW u \in Members
      PROVE  /\ Accounts(u) \/ ALateOneActs \/ \E r \in Requests : At(r, "drop") /\ Acts(r)
             /\ Fitting(u) \/ \E r \in late : Acts(r) /\ At(r, "limit")
  <2>1. CASE MessageStep
    BY <1>1, <2>1, MessageRows, BoxUnchanged DEF MailboxInv
  <2>2. ASSUME NEW r \in Requests, ReadStep(r) PROVE Accounts(u) /\ Fitting(u)
    BY <1>1, <2>2, ItemsByReads, BoxUnchanged DEF MailboxInv
  <2> QED
    BY <1>1, <2>1, <2>2, WritesAccount DEF Next
<1>2. MailboxInv /\ [Next]_vars =>
        [\A u \in Members :
           /\ \/ Drift(u)' = Drift(u) \/ Drift(u)' \in Drift(u)..0
              \/ ALateOneActs \/ \E r \in Requests : At(r, "drop") /\ Acts(r)
           /\ box[u].used <= box[u].limit =>
                \/ box'[u].used <= box'[u].limit
                \/ \E r \in late : Acts(r) /\ At(r, "limit")]_vars
  BY <1>1 DEF Accounts, Fitting
<1> QED
  BY <1>2, MailboxInvHolds, PTL DEF Spec, StorageAccounted
=============================================================================
