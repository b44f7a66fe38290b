------------------------- MODULE SignInCodesProofs -------------------------
(***************************************************************************)
(* Proofs about SignInCodes, for any number of requests and of codes.      *)
(*                                                                         *)
(* Every step does one of few things to the codes: nothing, it changes one *)
(* or all without changing their purposes, or appends one.  The bound on   *)
(* the guesses counts, beside those that were made, the requests that are  *)
(* about to count one.  A block stands because who will write the account  *)
(* holds what the account still says, unless it is late.                   *)
(***************************************************************************)
EXTENDS SignInCodes, FiniteSetTheorems, WellFoundedInduction, TLAPS

Request == [pc : Writes \cup {"idle"}, status : Statuses, code : Nat, purpose : Purposes]
Entering == {"exhaust", "miss", "use", "promote", "spend"}

\* A request that writes to a code has read one of its purpose.
Aimed(r) ==
  req[r].pc \in Entering =>
    req[r].code \in DOMAIN codes /\ codes[req[r].code].purpose = req[r].purpose

LEMMA TypeParts ==
  TypeOK <=> /\ account \in Account /\ late \in [Requests -> BOOLEAN]
             /\ codes \in Seq(Code) /\ req \in [Requests -> Request]
             /\ \A r \in Requests : Aimed(r)
  BY DEF TypeOK, Aimed, Request, Entering

-----------------------------------------------------------------------------
(* Codes                                                                     *)

LEMMA CodesAreSeq ==
  ASSUME TypeOK
  PROVE  /\ Len(codes) \in Nat /\ DOMAIN codes = 1..Len(codes)
         /\ codes \in [1..Len(codes) -> Code]
         /\ \A i \in DOMAIN codes : codes[i] \in Code
  BY DEF TypeOK

\* The newest of the valid codes is one of them.
LEMMA NewestIsLive ==
  ASSUME TypeOK, NEW p \in Purposes, Live(p) # {}
  PROVE  Newest(p) \in Live(p)
  <1>. DEFINE n == Len(codes)
              after(i) == (i + 1)..n
              tails == {after(i) : i \in Live(p)}
  <1>1. n \in Nat /\ Live(p) \subseteq 1..n
    BY CodesAreSeq DEF Live
  <1>2. IsWellFoundedOn(StrictSubsetOrdering(1..n), SUBSET (1..n))
    <2>1. IsFiniteSet(1..n)
      BY <1>1, FS_Interval
    <2>. QED BY <2>1, FS_FiniteSubsetsOfFinite, FS_StrictSubsetOrderingWellFounded
  <1>3. tails \subseteq SUBSET (1..n) /\ tails # {}
    BY <1>1
  <1>4. PICK x \in tails : \A y \in tails : <<y, x>> \notin StrictSubsetOrdering(1..n)
    BY <1>2, <1>3, WFMin
  <1>5. PICK i \in Live(p) : x = after(i)
    BY <1>4
  <1>6. ASSUME NEW j \in Live(p), ~(j <= i) PROVE FALSE
    <2>1. after(j) \subseteq after(i) /\ j \in after(i) /\ j \notin after(j)
      BY <1>1, <1>6
    <2>2. after(j) \in tails /\ after(j) # after(i)
      BY <2>1
    <2>3. <<after(j), x>> \in StrictSubsetOrdering(1..n)
      BY <1>3, <1>5, <2>1, <2>2 DEF StrictSubsetOrdering
    <2>. QED BY <1>4, <2>2, <2>3
  <1>. QED BY <1>6 DEF Newest

\* One code is consumed.
LEMMA OneConsumed ==
  ASSUME TypeOK, NEW i \in DOMAIN codes, codes' = [codes EXCEPT ![i].consumed = TRUE]
  PROVE  /\ codes' \in Seq(Code) /\ DOMAIN codes' = DOMAIN codes /\ Len(codes') = Len(codes)
         /\ \A j \in DOMAIN codes : /\ codes'[j].purpose = codes[j].purpose
                                    /\ codes'[j].attempts = codes[j].attempts
                                    /\ codes[j].consumed => codes'[j].consumed
  <1>1. codes' = [codes EXCEPT ![i] = [codes[i] EXCEPT !.consumed = TRUE]]
    OBVIOUS
  <1>2. [codes[i] EXCEPT !.consumed = TRUE] \in Code
    BY CodesAreSeq DEF Code
  <1>3. /\ codes' \in [1..Len(codes) -> Code] /\ codes' \in Seq(Code)
        /\ DOMAIN codes' = DOMAIN codes /\ Len(codes') = Len(codes)
    BY <1>1, <1>2, CodesAreSeq
  <1>4. ASSUME NEW j \in DOMAIN codes
        PROVE  /\ codes'[j].purpose = codes[j].purpose
               /\ codes'[j].attempts = codes[j].attempts
               /\ codes[j].consumed => codes'[j].consumed
    BY <1>1, CodesAreSeq DEF Code
  <1>. QED BY <1>3, <1>4

\* One wrong guess is counted.
LEMMA OneCounted ==
  ASSUME TypeOK, NEW i \in DOMAIN codes, codes' = [codes EXCEPT ![i].attempts = @ + 1]
  PROVE  /\ codes' \in Seq(Code) /\ DOMAIN codes' = DOMAIN codes /\ Len(codes') = Len(codes)
         /\ codes'[i].attempts = codes[i].attempts + 1
         /\ \A j \in DOMAIN codes \ {i} : codes'[j].attempts = codes[j].attempts
         /\ \A j \in DOMAIN codes : /\ codes'[j].purpose = codes[j].purpose
                                    /\ codes[j].consumed => codes'[j].consumed
  <1>1. codes' = [codes EXCEPT ![i] = [codes[i] EXCEPT !.attempts = codes[i].attempts + 1]]
    OBVIOUS
  <1>2. [codes[i] EXCEPT !.attempts = codes[i].attempts + 1] \in Code
    BY CodesAreSeq DEF Code
  <1>3. /\ codes' \in [1..Len(codes) -> Code] /\ codes' \in Seq(Code)
        /\ DOMAIN codes' = DOMAIN codes /\ Len(codes') = Len(codes)
    BY <1>1, <1>2, CodesAreSeq
  <1>4. codes'[i].attempts = codes[i].attempts + 1
    BY <1>1, CodesAreSeq DEF Code
  <1>5. \A j \in DOMAIN codes \ {i} : codes'[j] = codes[j]
    BY <1>1, CodesAreSeq
  <1>6. codes'[i].purpose = codes[i].purpose /\ codes'[i].consumed = codes[i].consumed
    BY <1>1, CodesAreSeq DEF Code
  <1>. QED BY <1>3, <1>4, <1>5, <1>6

\* All codes of a purpose are consumed.
LEMMA AllConsumed ==
  ASSUME TypeOK, NEW p \in Purposes, NEW cs, cs = ConsumeAll(codes, p)
  PROVE  /\ cs \in Seq(Code) /\ DOMAIN cs = DOMAIN codes /\ Len(cs) = Len(codes)
         /\ \A j \in DOMAIN codes : /\ cs[j].purpose = codes[j].purpose
                                    /\ cs[j].attempts = codes[j].attempts
                                    /\ codes[j].consumed => cs[j].consumed
                                    /\ codes[j].purpose = p => cs[j].consumed
  <1>1. \A j \in DOMAIN codes : [codes[j] EXCEPT !.consumed = TRUE] \in Code
    BY CodesAreSeq DEF Code
  <1>2. cs \in [1..Len(codes) -> Code]
    BY <1>1, CodesAreSeq DEF ConsumeAll
  <1>3. cs \in Seq(Code) /\ DOMAIN cs = DOMAIN codes /\ Len(cs) = Len(codes)
    BY <1>2, CodesAreSeq
  <1>4. ASSUME NEW j \in DOMAIN codes
        PROVE  /\ cs[j].purpose = codes[j].purpose
               /\ cs[j].attempts = codes[j].attempts
               /\ codes[j].consumed => cs[j].consumed
               /\ codes[j].purpose = p => cs[j].consumed
    <2>1. cs[j] = IF codes[j].purpose = p THEN [codes[j] EXCEPT !.consumed = TRUE] ELSE codes[j]
      BY DEF ConsumeAll
    <2>2. codes[j] \in Code
      BY CodesAreSeq
    <2>3. CASE codes[j].purpose = p
      BY <2>1, <2>2, <2>3 DEF Code
    <2>4. CASE codes[j].purpose # p
      BY <2>1, <2>4
    <2>. QED BY <2>3, <2>4
  <1>. QED BY <1>3, <1>4

\* The codes age.
LEMMA AllAge ==
  ASSUME TypeOK, NEW age \in {Cool, Hour}, Time(age)
  PROVE  /\ codes' \in Seq(Code) /\ DOMAIN codes' = DOMAIN codes /\ Len(codes') = Len(codes)
         /\ \A j \in DOMAIN codes : /\ codes'[j].purpose = codes[j].purpose
                                    /\ codes'[j].attempts = codes[j].attempts
                                    /\ codes[j].consumed => codes'[j].consumed
  <1>1. age \in 0..Hour
    BY DEF Cool, Hour
  <1>2. \A j \in DOMAIN codes : [codes[j] EXCEPT !.age = age] \in Code
    BY <1>1, CodesAreSeq DEF Code
  <1>3. codes' \in [1..Len(codes) -> Code]
    BY <1>2, CodesAreSeq DEF Time
  <1>4. codes' \in Seq(Code) /\ DOMAIN codes' = DOMAIN codes /\ Len(codes') = Len(codes)
    BY <1>3, CodesAreSeq
  <1>5. ASSUME NEW j \in DOMAIN codes
        PROVE  /\ codes'[j].purpose = codes[j].purpose
               /\ codes'[j].attempts = codes[j].attempts
               /\ codes[j].consumed => codes'[j].consumed
    <2>1. codes'[j] \in {codes[j], [codes[j] EXCEPT !.age = age]}
      BY DEF Time
    <2>. QED BY <2>1, CodesAreSeq DEF Code
  <1>. QED BY <1>4, <1>5

\* A code is added.
LEMMA OneAdded ==
  ASSUME NEW cs \in Seq(Code), NEW p \in Purposes, codes' = Append(cs, NewCode(p))
  PROVE  /\ codes' \in Seq(Code) /\ Len(codes') = Len(cs) + 1
         /\ DOMAIN cs = 1..Len(cs) /\ DOMAIN codes' = DOMAIN cs \cup {Len(cs) + 1}
         /\ codes'[Len(cs) + 1].attempts = 0 /\ codes'[Len(cs) + 1].purpose = p
         /\ \A j \in DOMAIN cs : codes'[j] = cs[j]
  <1>1. NewCode(p) \in Code
    BY DEF NewCode, Code, Hour
  <1>2. NewCode(p).attempts = 0 /\ NewCode(p).purpose = p
    BY DEF NewCode
  <1>. HIDE DEF NewCode
  <1>3. /\ codes' \in Seq(Code) /\ Len(codes') = Len(cs) + 1
        /\ DOMAIN cs = 1..Len(cs) /\ DOMAIN codes' = 1..(Len(cs) + 1)
        /\ codes'[Len(cs) + 1] = NewCode(p)
        /\ \A j \in DOMAIN cs : codes'[j] = cs[j]
    BY <1>1
  <1>. QED BY <1>2, <1>3

-----------------------------------------------------------------------------
(* The invariant                                                             *)

\* The requests that are about to count a wrong guess of a code.
Missing(i) == {r \in Requests : At(r, "miss") /\ req[r].code = i}

GuessesReserved ==
  \A i \in DOMAIN codes :
    codes[i].attempts + Cardinality(Missing(i)) <= MaxGuesses - 1 + Cardinality(Requests)

\* A code that is still valid beside the one being created was created by somebody else since.
SupersededSince ==
  \A r \in Requests : At(r, "create") =>
    /\ req[r].code <= Len(codes)
    /\ \A i \in DOMAIN codes :
         codes[i].purpose = req[r].purpose /\ ~codes[i].consumed => i > req[r].code

\* What a request has read of the account, when it is about to write to it.
Told(q) ==
  /\ q.pc = "register" => account.status \in {"none", "INVITED"}
  /\ q.pc = "activate" => account.status = "PENDING_VERIFICATION"
  /\ q.pc \in {"promote", "link"} => q.status = account.status

ReadIsCurrent == \A r \in Requests : ~late[r] => Told(req[r])

CodesInv == TypeOK /\ GuessesReserved /\ SupersededSince /\ ReadIsCurrent

LEMMA MissingBounded ==
  ASSUME NEW i
  PROVE  /\ IsFiniteSet(Missing(i)) /\ Cardinality(Missing(i)) \in Nat
         /\ Cardinality(Requests) \in Nat /\ Cardinality(Missing(i)) <= Cardinality(Requests)
  <1>1. IsFiniteSet(Requests) /\ Missing(i) \in SUBSET Requests
    BY CodeAssumption DEF Missing
  <1>. QED BY <1>1, FS_Subset, FS_CardinalityType

LEMMA InitCodes == Init => CodesInv
  <1>. SUFFICES ASSUME Init PROVE CodesInv
    OBVIOUS
  <1>1. account \in Account
    <2>1. NoAccount \in Account /\ "INVITED" \in Statuses
      BY DEF NoAccount, Account, Statuses
    <2>2. Invited \in Account
      BY <2>1 DEF Invited, Account
    <2>. QED BY <2>1, <2>2 DEF Init
  <1>2. codes \in Seq(Code) /\ DOMAIN codes = {}
    BY DEF Init
  <1>3. Idle \in Request /\ Idle.pc = "idle"
    BY DEF Idle, Request, Statuses, Purposes
  <1>4. req \in [Requests -> Request] /\ \A r \in Requests : req[r].pc = "idle"
    BY <1>3 DEF Init
  <1>5. late \in [Requests -> BOOLEAN]
    BY DEF Init
  <1>6. \A r \in Requests : Aimed(r)
    BY <1>4 DEF Aimed, Entering
  <1>7. TypeOK
    BY <1>1, <1>2, <1>4, <1>5, <1>6, TypeParts
  <1>. QED BY <1>2, <1>4, <1>7
          DEF CodesInv, GuessesReserved, SupersededSince, ReadIsCurrent, Told, At

-----------------------------------------------------------------------------
(* A request goes on                                                         *)

\* Only the request changes: it goes on to what it has read.
GoesOn(r, to) ==
  /\ to \in Request
  /\ req' = [req EXCEPT ![r] = to] /\ UNCHANGED <<account, codes, late>>
  /\ to.pc \in Entering => to.code \in DOMAIN codes /\ codes[to.code].purpose = to.purpose
  /\ to.pc = "miss" => codes[to.code].attempts < MaxGuesses
  /\ to.pc # "create"
  /\ Told(to)

LEMMA GoingOnKeeps == ASSUME CodesInv, NEW r \in Requests, NEW to, GoesOn(r, to) PROVE CodesInv'
  <1>1. req' \in [Requests -> Request] /\ req'[r] = to /\ \A q \in Requests \ {r} : req'[q] = req[q]
    BY TypeParts DEF CodesInv, GoesOn
  <1>2. TypeOK'
    <2>1. \A q \in Requests : Aimed(q)'
      BY <1>1, TypeParts DEF CodesInv, GoesOn, Aimed
    <2>2. account' \in Account /\ late' \in [Requests -> BOOLEAN] /\ codes' \in Seq(Code)
      BY TypeParts DEF CodesInv, GoesOn
    <2>. QED BY <1>1, <2>1, <2>2 DEF TypeOK, Aimed, Request, Entering
  <1>3. GuessesReserved'
    <2>. SUFFICES ASSUME NEW i \in DOMAIN codes
                  PROVE  codes[i].attempts + Cardinality(Missing(i)')
                           <= MaxGuesses - 1 + Cardinality(Requests)
      BY DEF GuessesReserved, GoesOn
    <2>1. codes[i].attempts \in Nat /\ MaxGuesses \in Nat
      BY CodesAreSeq, CodeAssumption DEF CodesInv, Code
    <2>2. CASE to.pc = "miss" /\ to.code = i
      <3>1. Missing(i)' \in SUBSET Requests
        BY DEF Missing
      <3>2. Cardinality(Missing(i)') \in Nat /\ Cardinality(Missing(i)') <= Cardinality(Requests)
        BY <3>1, CodeAssumption, FS_Subset, FS_CardinalityType
      <3>3. codes[i].attempts < MaxGuesses
        BY <2>2 DEF GoesOn
      <3>4. Cardinality(Requests) \in Nat
        BY CodeAssumption, FS_CardinalityType
      <3>. QED BY <2>1, <3>2, <3>3, <3>4
    <2>3. CASE ~(to.pc = "miss" /\ to.code = i)
      <3>1. Missing(i)' \in SUBSET Missing(i)
        BY <1>1, <2>3 DEF Missing, At
      <3>2. Cardinality(Missing(i)') \in Nat /\ Cardinality(Missing(i)') <= Cardinality(Missing(i))
        BY <3>1, MissingBounded, FS_Subset, FS_CardinalityType
      <3>. QED BY <2>1, <3>2, MissingBounded DEF CodesInv, GuessesReserved
    <2>. QED BY <2>2, <2>3
  <1>4. SupersededSince'
    BY <1>1 DEF CodesInv, SupersededSince, GoesOn, At
  <1>5. ReadIsCurrent'
    BY <1>1 DEF CodesInv, ReadIsCurrent, GoesOn, Told
  <1>. QED BY <1>2, <1>3, <1>4, <1>5 DEF CodesInv

-----------------------------------------------------------------------------
(* A request ends, or somebody else acts                                     *)

\* What becomes of the codes that there are: their purposes stay, what is consumed stays so.
CodesKept ==
  /\ codes' \in Seq(Code) /\ DOMAIN codes \subseteq DOMAIN codes' /\ Len(codes) <= Len(codes')
  /\ \A j \in DOMAIN codes : /\ codes'[j].purpose = codes[j].purpose
                             /\ codes[j].consumed => codes'[j].consumed
  /\ \A j \in DOMAIN codes' \ DOMAIN codes : j > Len(codes) /\ codes'[j].attempts = 0

\* The account is left alone, or whoever has read it is late.
AccountKept ==
  \/ UNCHANGED <<account, late>>
  \/ /\ account' \in Account /\ late' \in [Requests -> BOOLEAN]
     /\ \A q \in Requests : ~late'[q] => ~(req'[q].pc \in {"register", "promote", "link", "activate"})

\* Requests go nowhere but to their end.
RequestsKept ==
  /\ req' \in [Requests -> Request]
  /\ \A q \in Requests : req'[q] = req[q] \/ req'[q].pc = "idle"

\* A guess is counted by a request that was about to, and is not any more.
GuessesKept ==
  \A i \in DOMAIN codes :
    \/ codes'[i].attempts = codes[i].attempts
    \/ /\ codes'[i].attempts = codes[i].attempts + 1
       /\ \E r \in Requests : r \in Missing(i) /\ req'[r].pc = "idle"

LEMMA EndKeepsGuesses ==
  ASSUME CodesInv, CodesKept, RequestsKept, GuessesKept
  PROVE  GuessesReserved'
  <1>. SUFFICES ASSUME NEW i \in DOMAIN codes'
                PROVE  codes'[i].attempts + Cardinality(Missing(i)')
                         <= MaxGuesses - 1 + Cardinality(Requests)
    BY DEF GuessesReserved
  <1>1. MaxGuesses \in Nat \ {0} /\ IsFiniteSet(Requests)
    BY CodeAssumption
  <1>2. Missing(i)' \in SUBSET Missing(i)
    BY DEF Missing, RequestsKept, At
  <1>3. /\ IsFiniteSet(Missing(i)') /\ Cardinality(Missing(i)') \in Nat
        /\ Cardinality(Missing(i)') <= Cardinality(Missing(i))
    BY <1>2, MissingBounded, FS_Subset, FS_CardinalityType
  <1>4. CASE i \notin DOMAIN codes
    <2>1. codes'[i].attempts = 0
      BY <1>4 DEF CodesKept
    <2>. QED BY <1>1, <1>3, <2>1, MissingBounded
  <1>5. ASSUME i \in DOMAIN codes
        PROVE  /\ codes[i].attempts \in Nat
               /\ codes[i].attempts + Cardinality(Missing(i))
                    <= MaxGuesses - 1 + Cardinality(Requests)
    BY <1>5, CodesAreSeq DEF CodesInv, Code, GuessesReserved
  <1>6. CASE i \in DOMAIN codes /\ codes'[i].attempts = codes[i].attempts
    BY <1>1, <1>3, <1>5, <1>6, MissingBounded
  <1>7. ASSUME i \in DOMAIN codes, codes'[i].attempts = codes[i].attempts + 1,
               NEW r \in Requests, r \in Missing(i), req'[r].pc = "idle"
        PROVE  codes'[i].attempts + Cardinality(Missing(i)')
                 <= MaxGuesses - 1 + Cardinality(Requests)
    <2>1. Missing(i)' \in SUBSET (Missing(i) \ {r})
      BY <1>2, <1>7 DEF Missing, At
    <2>2. /\ IsFiniteSet(Missing(i) \ {r})
          /\ Cardinality(Missing(i) \ {r}) = Cardinality(Missing(i)) - 1
      BY <1>7, MissingBounded, FS_RemoveElement
    <2>3. Cardinality(Missing(i)') <= Cardinality(Missing(i)) - 1
      BY <2>1, <2>2, FS_Subset
    <2>. QED BY <1>1, <1>3, <1>5, <1>7, <2>3, MissingBounded
  <1>. QED BY <1>4, <1>6, <1>7 DEF GuessesKept

LEMMA EndKeeps ==
  ASSUME CodesInv, CodesKept, AccountKept, RequestsKept, GuessesKept
  PROVE  CodesInv'
  <1>1. TypeOK'
    <2>1. account' \in Account /\ late' \in [Requests -> BOOLEAN]
      BY TypeParts DEF CodesInv, AccountKept
    <2>2. \A q \in Requests : Aimed(q)'
      BY TypeParts DEF CodesInv, CodesKept, RequestsKept, Aimed, Entering
    <2>. QED BY <2>1, <2>2 DEF CodesKept, RequestsKept, TypeOK, Aimed, Request, Entering
  <1>2. SupersededSince'
    <2>. SUFFICES ASSUME NEW r \in Requests, At(r, "create")'
                  PROVE  /\ req'[r].code <= Len(codes')
                         /\ \A i \in DOMAIN codes' :
                              codes'[i].purpose = req'[r].purpose /\ ~codes'[i].consumed
                                => i > req'[r].code
      BY DEF SupersededSince
    <2>1. req'[r] = req[r] /\ At(r, "create")
      BY DEF RequestsKept, At
    <2>2. req[r].code \in Nat /\ Len(codes) \in Nat /\ Len(codes') \in Nat
      BY TypeParts DEF CodesInv, Request, CodesKept
    <2>3. req[r].code <= Len(codes)
      BY <2>1 DEF CodesInv, SupersededSince
    <2>4. DOMAIN codes' \subseteq Nat
      BY DEF CodesKept
    <2>5. ASSUME NEW i \in DOMAIN codes', codes'[i].purpose = req[r].purpose, ~codes'[i].consumed
          PROVE  i > req[r].code
      <3>1. CASE i \in DOMAIN codes
        BY <2>1, <2>5, <3>1 DEF CodesInv, SupersededSince, CodesKept
      <3>2. CASE i \notin DOMAIN codes
        BY <2>2, <2>3, <2>4, <3>2 DEF CodesKept
      <3>. QED BY <3>1, <3>2
    <2>. QED BY <2>1, <2>2, <2>3, <2>5 DEF CodesKept
  <1>3. ReadIsCurrent'
    <2>. SUFFICES ASSUME NEW q \in Requests, ~late'[q] PROVE Told(req[q])' 
      BY DEF ReadIsCurrent
    <2>1. CASE UNCHANGED <<account, late>>
      BY <2>1 DEF CodesInv, ReadIsCurrent, Told, RequestsKept
    <2>2. CASE ~(req'[q].pc \in {"register", "promote", "link", "activate"})
      BY <2>2 DEF Told
    <2>. QED BY <2>1, <2>2 DEF AccountKept
  <1>. QED BY <1>1, <1>2, <1>3, EndKeepsGuesses DEF CodesInv

-----------------------------------------------------------------------------
(* The actions of a request that only read                                   *)

LEMMA StutterKeeps == CodesInv /\ UNCHANGED vars => CodesInv'
  BY DEF vars, CodesInv, TypeOK, Code, GuessesReserved, Missing, At, SupersededSince,
         ReadIsCurrent, Told

LEMMA StepKeeps ==
  ASSUME CodesInv, NEW r \in Requests,
         NEW pc \in Writes \ {"create", "promote", "link"}, NEW code \in Nat, NEW p \in Purposes,
         Step(r, pc, code, p), UNCHANGED <<account, codes, late>>,
         pc \in Entering => code \in DOMAIN codes /\ codes[code].purpose = p,
         pc = "miss" => codes[code].attempts < MaxGuesses,
         pc = "register" => account.status \in {"none", "INVITED"},
         pc = "activate" => account.status = "PENDING_VERIFICATION"
  PROVE  CodesInv'
  <1>. DEFINE to == [Idle EXCEPT !.pc = pc, !.code = code, !.purpose = p]
  <1>1. Idle \in Request /\ pc \in Writes
    BY DEF Idle, Request, Statuses, Purposes
  <1>3. req' = [req EXCEPT ![r] = to]
    BY DEF Step
  <1>4. to \in Request /\ to.pc = pc /\ to.code = code /\ to.purpose = p
    BY <1>1 DEF Request
  <1>. HIDE DEF to
  <1>5. Told(to)
    BY <1>4 DEF Told
  <1>6. GoesOn(r, to)
    BY <1>3, <1>4, <1>5 DEF GoesOn
  <1>. QED BY <1>6, GoingOnKeeps

\* A request that remembers the status goes on to write the account.
LEMMA StatusReadKeeps ==
  ASSUME CodesInv, NEW r \in Requests, NEW pc \in {"promote", "link"},
         req' = [req EXCEPT ![r].pc = pc, ![r].status = account.status],
         UNCHANGED <<account, codes, late>>,
         pc = "promote" => req[r].pc \in Entering
  PROVE  CodesInv'
  <1>. DEFINE to == [req[r] EXCEPT !.pc = pc, !.status = account.status]
  <1>1. req \in [Requests -> Request] /\ req[r] \in Request /\ account \in Account
    BY TypeParts DEF CodesInv
  <1>2. /\ account.status \in Statuses /\ req[r].code \in Nat /\ req[r].purpose \in Purposes
        /\ pc \in Writes
    BY <1>1 DEF Request, Account, Writes
  <1>5. req' = [req EXCEPT ![r] = to]
    BY <1>1
  <1>6. /\ to \in Request /\ to.pc = pc /\ to.status = account.status
        /\ to.code = req[r].code /\ to.purpose = req[r].purpose
    BY <1>1, <1>2 DEF Request
  <1>. HIDE DEF to
  <1>7. Told(to)
    BY <1>6 DEF Told
  <1>8. to.pc \in Entering => to.code \in DOMAIN codes /\ codes[to.code].purpose = to.purpose
    BY <1>6, TypeParts DEF CodesInv, Aimed, Entering
  <1>9. GoesOn(r, to)
    BY <1>5, <1>6, <1>7, <1>8 DEF GoesOn
  <1>. QED BY <1>9, GoingOnKeeps

LEMMA EnterKeeps ==
  ASSUME CodesInv, NEW r \in Requests, NEW p \in Purposes, NEW right \in BOOLEAN,
         Enter(r, p, right)
  PROVE  CodesInv'
  <1>1. CASE Refuse
    BY <1>1, StutterKeeps DEF Enter, vars, Refuse
  <1>2. CASE ~Refuse
    <2>. DEFINE i == Newest(p)
                pc == CASE Exhausted(i) -> "exhaust"
                        [] ~Exhausted(i) /\ ~right -> "miss"
                        [] ~Exhausted(i) /\ right -> IF p = "verify" THEN "use" ELSE "spend"
    <2>1. Live(p) # {} /\ Step(r, pc, i, p) /\ UNCHANGED <<account, codes, late>>
      BY <1>2 DEF Enter
    <2>2. i \in DOMAIN codes /\ codes[i].purpose = p
      BY <2>1, NewestIsLive DEF CodesInv, Live
    <2>3. i \in Nat /\ codes[i].attempts \in Nat /\ MaxGuesses \in Nat
      BY <2>2, CodesAreSeq, CodeAssumption DEF CodesInv, Code
    <2>4. pc \in {"exhaust", "miss", "use", "spend"} /\ (pc = "miss" => ~Exhausted(i))
      OBVIOUS
    <2>5. pc = "miss" => codes[i].attempts < MaxGuesses
      BY <2>3, <2>4 DEF Exhausted
    <2>. HIDE DEF pc, i
    <2>6. pc \in Writes \ {"create", "promote", "link"}
      BY <2>4 DEF Writes
    <2>. QED BY <2>1, <2>2, <2>3, <2>4, <2>5, <2>6, StepKeeps
  <1>. QED BY <1>1, <1>2

LEMMA ReadsKeep ==
  ASSUME CodesInv, NEW r \in Requests
  PROVE  /\ \A forSignIn \in BOOLEAN : AskCode(r, forSignIn) => CodesInv'
         /\ ForgotPassword(r) => CodesInv'
         /\ RegisterRead(r) => CodesInv'
         /\ UseRead(r) => CodesInv'
         /\ GoogleRead(r) => CodesInv'
         /\ JoinRead(r) => CodesInv'
         /\ WorkspaceRead(r) => CodesInv'
  <1>. USE DEF Entering
  <1>1. {"consume", "register", "activate"} \subseteq Writes \ {"create", "promote", "link"}
    BY DEF Writes
  <1>2. Purposes = {"verify", "reset"} /\ 0 \in Nat
    BY DEF Purposes
  <1>3. ASSUME NEW forSignIn \in BOOLEAN, AskCode(r, forSignIn) PROVE CodesInv'
    <2>1. CASE Refuse
      BY <1>3, <2>1, StutterKeeps DEF AskCode, vars, Refuse
    <2>2. CASE ~Refuse
      <3>1. Step(r, "consume", 0, "verify") /\ UNCHANGED <<account, codes, late>>
        BY <1>3, <2>2 DEF AskCode
      <3>. QED BY <1>1, <1>2, <3>1, StepKeeps
    <2>. QED BY <2>1, <2>2
  <1>4. ASSUME ForgotPassword(r) PROVE CodesInv'
    <2>1. CASE Refuse
      BY <1>4, <2>1, StutterKeeps DEF ForgotPassword, vars, Refuse
    <2>2. CASE ~Refuse
      <3>1. Step(r, "consume", 0, "reset") /\ UNCHANGED <<account, codes, late>>
        BY <1>4, <2>2 DEF ForgotPassword
      <3>. QED BY <1>1, <1>2, <3>1, StepKeeps
    <2>. QED BY <2>1, <2>2
  <1>5. ASSUME RegisterRead(r) PROVE CodesInv'
    <2>1. /\ Step(r, "register", 0, "verify") /\ UNCHANGED <<account, codes, late>>
          /\ account.status \in {"none", "INVITED"}
      BY <1>5 DEF RegisterRead
    <2>. QED BY <1>1, <1>2, <2>1, StepKeeps
  <1>6. ASSUME UseRead(r) PROVE CodesInv'
    BY <1>6, StatusReadKeeps DEF UseRead, At
  <1>7. ASSUME GoogleRead(r) PROVE CodesInv'
    <2>1. CASE Refuse
      BY <1>7, <2>1, StutterKeeps DEF GoogleRead, vars, Refuse
    <2>2. CASE ~Refuse
      <3>1. /\ req' = [req EXCEPT ![r].pc = "link", ![r].status = account.status]
            /\ UNCHANGED <<account, codes, late>>
        BY <1>7, <2>2 DEF GoogleRead
      <3>. QED BY <3>1, StatusReadKeeps
    <2>. QED BY <2>1, <2>2
  <1>8. ASSUME JoinRead(r) \/ WorkspaceRead(r) PROVE CodesInv'
    <2>1. CASE Refuse
      BY <1>8, <2>1, StutterKeeps DEF JoinRead, WorkspaceRead, vars, Refuse
    <2>2. CASE ~Refuse
      <3>1. /\ Step(r, "activate", 0, "verify") /\ UNCHANGED <<account, codes, late>>
            /\ account.status = "PENDING_VERIFICATION"
        BY <1>8, <2>2 DEF JoinRead, WorkspaceRead
      <3>. QED BY <1>1, <1>2, <3>1, StepKeeps
    <2>. QED BY <2>1, <2>2
  <1>. QED BY <1>3, <1>4, <1>5, <1>6, <1>7, <1>8

-----------------------------------------------------------------------------
(* The actions that write                                                    *)

LEMMA Answered ==
  ASSUME CodesInv, NEW r \in Requests, Answer(r)
  PROVE  RequestsKept /\ req'[r] = Idle /\ req'[r].pc = "idle"
  <1>1. Idle \in Request /\ Idle.pc = "idle"
    BY DEF Idle, Request, Statuses, Purposes
  <1>2. req \in [Requests -> Request] /\ req' = [req EXCEPT ![r] = Idle]
    BY TypeParts DEF CodesInv, Answer
  <1>. QED BY <1>1, <1>2 DEF RequestsKept

\* Who writes the account overtakes the others and is done.
LEMMA WrittenKeeps ==
  ASSUME CodesInv, NEW r \in Requests, Written(r), account' \in Account
  PROVE  AccountKept /\ RequestsKept /\ req'[r] = Idle /\ req'[r].pc = "idle"
  <1>1. RequestsKept /\ req'[r] = Idle /\ req'[r].pc = "idle"
    BY Answered DEF Written
  <1>2. late \in [Requests -> BOOLEAN] /\ late' = [q \in Requests |-> q # r /\ Overtaken(q)]
    BY TypeParts DEF CodesInv, Written
  <1>3. late' \in [Requests -> BOOLEAN]
    BY <1>2 DEF Overtaken
  <1>4. ASSUME NEW q \in Requests, ~late'[q]
        PROVE  ~(req'[q].pc \in {"register", "promote", "link", "activate"})
    <2>1. q = r \/ ~Overtaken(q)
      BY <1>2, <1>4
    <2>2. CASE q = r
      BY <1>1, <2>2
    <2>3. CASE ~Overtaken(q)
      BY <1>1, <2>3 DEF Overtaken, RequestsKept
    <2>. QED BY <2>1, <2>2, <2>3
  <1>. QED BY <1>1, <1>3, <1>4 DEF AccountKept

LEMMA CodesUntouched ==
  ASSUME CodesInv, UNCHANGED codes
  PROVE  CodesKept /\ GuessesKept
  <1>1. codes' = codes /\ codes \in Seq(Code) /\ Len(codes) \in Nat
    BY CodesAreSeq, TypeParts DEF CodesInv
  <1>2. CodesKept
    BY <1>1 DEF CodesKept
  <1>3. GuessesKept
    BY <1>1 DEF GuessesKept
  <1>. QED BY <1>2, <1>3

LEMMA ConsumedKept ==
  ASSUME CodesInv, NEW i \in DOMAIN codes, codes' = [codes EXCEPT ![i].consumed = TRUE]
  PROVE  CodesKept /\ GuessesKept
  <1>1. TypeOK /\ Len(codes) \in Nat
    BY CodesAreSeq DEF CodesInv
  <1>2. /\ codes' \in Seq(Code) /\ DOMAIN codes' = DOMAIN codes /\ Len(codes') = Len(codes)
        /\ \A j \in DOMAIN codes : /\ codes'[j].purpose = codes[j].purpose
                                   /\ codes'[j].attempts = codes[j].attempts
                                   /\ codes[j].consumed => codes'[j].consumed
    BY <1>1, OneConsumed
  <1>. QED BY <1>1, <1>2 DEF CodesKept, GuessesKept

\* A code is added to codes of which some were consumed.
LEMMA AddedKept ==
  ASSUME CodesInv, NEW p \in Purposes, NEW cs \in Seq(Code),
         DOMAIN cs = DOMAIN codes, Len(cs) = Len(codes),
         \A j \in DOMAIN codes : /\ cs[j].purpose = codes[j].purpose
                                 /\ cs[j].attempts = codes[j].attempts
                                 /\ codes[j].consumed => cs[j].consumed,
         codes' = Append(cs, NewCode(p))
  PROVE  CodesKept /\ GuessesKept
  <1>1. /\ codes' \in Seq(Code) /\ Len(codes') = Len(codes) + 1 /\ Len(codes) \in Nat
        /\ DOMAIN codes' = DOMAIN codes \cup {Len(codes) + 1}
        /\ codes'[Len(codes) + 1].attempts = 0
        /\ \A j \in DOMAIN codes : codes'[j] = cs[j]
    BY OneAdded, CodesAreSeq DEF CodesInv
  <1>2. CodesKept
    BY <1>1 DEF CodesKept
  <1>3. GuessesKept
    BY <1>1 DEF GuessesKept
  <1>. QED BY <1>2, <1>3

LEMMA IssueConsumeKeeps ==
  ASSUME CodesInv, NEW r \in Requests, IssueConsume(r)
  PROVE  CodesInv'
  <1>. DEFINE p == req[r].purpose
              to == [req[r] EXCEPT !.pc = "create", !.code = Len(codes)]
  <1>1. /\ req \in [Requests -> Request] /\ req[r] \in Request /\ p \in Purposes
        /\ TypeOK /\ Len(codes) \in Nat
    BY TypeParts, CodesAreSeq DEF CodesInv, Request
  <1>2. req' = [req EXCEPT ![r] = to] /\ UNCHANGED <<account, late>>
    BY <1>1 DEF IssueConsume
  <1>3. to \in Request /\ to.pc = "create" /\ to.code = Len(codes) /\ to.purpose = p
    BY <1>1 DEF Request, Writes
  <1>. HIDE DEF to
  <1>4. req' \in [Requests -> Request] /\ req'[r] = to /\ \A q \in Requests \ {r} : req'[q] = req[q]
    BY <1>1, <1>2, <1>3
  <1>5. /\ codes' \in Seq(Code) /\ DOMAIN codes' = DOMAIN codes /\ Len(codes') = Len(codes)
        /\ DOMAIN codes = 1..Len(codes)
        /\ \A j \in DOMAIN codes : /\ codes'[j].purpose = codes[j].purpose
                                   /\ codes'[j].attempts = codes[j].attempts
                                   /\ codes[j].consumed => codes'[j].consumed
                                   /\ codes[j].purpose = p => codes'[j].consumed
    BY <1>1, AllConsumed, CodesAreSeq DEF IssueConsume
  <1>6. TypeOK'
    <2>1. \A q \in Requests : Aimed(q)'
      BY <1>3, <1>4, <1>5, TypeParts DEF CodesInv, Aimed, Entering
    <2>2. account' \in Account /\ late' \in [Requests -> BOOLEAN]
      BY <1>2, TypeParts DEF CodesInv
    <2>. QED BY <1>4, <1>5, <2>1, <2>2 DEF TypeOK, Aimed, Request, Entering
  <1>7. GuessesReserved'
    <2>. SUFFICES ASSUME NEW i \in DOMAIN codes
                  PROVE  codes'[i].attempts + Cardinality(Missing(i)')
                           <= MaxGuesses - 1 + Cardinality(Requests)
      BY <1>5 DEF GuessesReserved
    <2>1. Missing(i)' = Missing(i)
      BY <1>3, <1>4 DEF Missing, At, IssueConsume
    <2>. QED BY <1>5, <2>1 DEF CodesInv, GuessesReserved
  <1>8. SupersededSince'
    <2>. SUFFICES ASSUME NEW q \in Requests, req'[q].pc = "create"
                  PROVE  /\ req'[q].code <= Len(codes)
                         /\ \A i \in DOMAIN codes :
                              codes[i].purpose = req'[q].purpose /\ ~codes'[i].consumed
                                => i > req'[q].code
      BY <1>5 DEF SupersededSince, At
    <2>1. CASE q = r
      BY <1>1, <1>3, <1>4, <1>5, <2>1
    <2>2. CASE q # r
      BY <1>4, <1>5, <2>2 DEF CodesInv, SupersededSince, At
    <2>. QED BY <2>1, <2>2
  <1>9. ReadIsCurrent'
    BY <1>2, <1>3, <1>4 DEF CodesInv, ReadIsCurrent, Told
  <1>. QED BY <1>6, <1>7, <1>8, <1>9 DEF CodesInv

LEMMA MissKeeps == ASSUME CodesInv, NEW r \in Requests, Miss(r) PROVE CodesInv'
  <1>. DEFINE i == req[r].code
  <1>1. /\ At(r, "miss") /\ Answer(r) /\ UNCHANGED <<account, late>>
        /\ codes' = [codes EXCEPT ![i].attempts = @ + 1]
    BY DEF Miss
  <1>2. i \in DOMAIN codes /\ TypeOK /\ Len(codes) \in Nat
    BY <1>1, TypeParts, CodesAreSeq DEF CodesInv, Aimed, Entering, At
  <1>3. RequestsKept /\ req'[r].pc = "idle"
    BY <1>1, Answered
  <1>4. CodesKept
    <2>1. /\ codes' \in Seq(Code) /\ DOMAIN codes' = DOMAIN codes /\ Len(codes') = Len(codes)
          /\ \A j \in DOMAIN codes : /\ codes'[j].purpose = codes[j].purpose
                                     /\ codes[j].consumed => codes'[j].consumed
      BY <1>1, <1>2, OneCounted
    <2>. QED BY <1>2, <2>1 DEF CodesKept
  <1>5. r \in Missing(i)
    BY <1>1 DEF Missing
  <1>6. GuessesKept
    BY <1>1, <1>2, <1>3, <1>5, OneCounted DEF GuessesKept
  <1>. QED BY <1>1, <1>3, <1>4, <1>6, EndKeeps DEF AccountKept

LEMMA CodeWritesKeep ==
  ASSUME CodesInv, NEW r \in Requests, IssueCreate(r) \/ Exhaust(r) \/ Spend(r)
  PROVE  CodesInv'
  <1>1. Answer(r) /\ UNCHANGED <<account, late>>
    BY DEF IssueCreate, Exhaust, Spend
  <1>2. AccountKept /\ RequestsKept
    BY <1>1, Answered DEF AccountKept
  <1>3. CodesKept /\ GuessesKept
    <2>1. CASE IssueCreate(r)
      <3>1. codes' = Append(codes, NewCode(req[r].purpose)) /\ req[r].purpose \in Purposes
        BY <2>1, TypeParts DEF IssueCreate, CodesInv, Request
      <3>2. codes \in Seq(Code)
        BY TypeParts DEF CodesInv
      <3>. QED BY <3>1, <3>2, AddedKept
    <2>2. CASE Exhaust(r) \/ Spend(r)
      <3>1. req[r].code \in DOMAIN codes
        BY <2>2, TypeParts DEF CodesInv, Exhaust, Spend, At, Aimed, Entering
      <3>. QED BY <2>2, <3>1, ConsumedKept DEF Exhaust, Spend
    <2>. QED BY <2>1, <2>2
  <1>. QED BY <1>2, <1>3, EndKeeps

\* What the account becomes.
LEMMA AccountTypes ==
  ASSUME CodesInv
  PROVE  /\ account \in Account
         /\ \A s \in Statuses, v \in BOOLEAN : /\ [account EXCEPT !.status = s] \in Account
                                               /\ [account EXCEPT !.status = s, !.verified = v] \in Account
                                               /\ [account EXCEPT !.verified = v, !.status = s] \in Account
  <1>1. account \in Account
    BY TypeParts DEF CodesInv
  <1>. QED BY <1>1 DEF Account

LEMMA AccountWritesKeep ==
  ASSUME CodesInv, NEW r \in Requests,
         RegisterWrite(r) \/ Promote(r) \/ GoogleLink(r) \/ Activate(r)
  PROVE  CodesInv'
  <1>1. Written(r)
    BY DEF RegisterWrite, Promote, GoogleLink, Activate
  <1>2. "ACTIVE" \in Statuses /\ "PENDING_VERIFICATION" \in Statuses /\ "verify" \in Purposes
    BY DEF Statuses, Purposes
  <1>3. req[r].status \in Statuses /\ account.status \in Statuses
    BY TypeParts DEF CodesInv, Request, Account
  <1>4. account' \in Account
    <2>1. CASE RegisterWrite(r)
      BY <1>2, <2>1, AccountTypes DEF RegisterWrite
    <2>2. CASE Promote(r)
      BY <1>2, <1>3, <2>2, AccountTypes DEF Promote, Promoted, Account
    <2>3. CASE GoogleLink(r)
      BY <1>2, <1>3, <2>3, AccountTypes DEF GoogleLink, Account
    <2>4. CASE Activate(r)
      BY <1>2, <2>4, AccountTypes DEF Activate
    <2>. QED BY <2>1, <2>2, <2>3, <2>4
  <1>5. CodesKept /\ GuessesKept
    <2>1. CASE RegisterWrite(r)
      <3>. DEFINE cs == ConsumeAll(codes, "verify")
      <3>1. codes' = Append(cs, NewCode("verify"))
        BY <2>1 DEF RegisterWrite
      <3>2. /\ cs \in Seq(Code) /\ DOMAIN cs = DOMAIN codes /\ Len(cs) = Len(codes)
            /\ \A j \in DOMAIN codes : /\ cs[j].purpose = codes[j].purpose
                                       /\ cs[j].attempts = codes[j].attempts
                                       /\ codes[j].consumed => cs[j].consumed
        BY <1>2, AllConsumed DEF CodesInv
      <3>. HIDE DEF cs
      <3>. QED BY <1>2, <3>1, <3>2, AddedKept
    <2>2. CASE Promote(r)
      <3>1. req[r].code \in DOMAIN codes
        BY <2>2, TypeParts DEF CodesInv, Promote, At, Aimed, Entering
      <3>. QED BY <2>2, <3>1, ConsumedKept DEF Promote
    <2>3. CASE GoogleLink(r) \/ Activate(r)
      BY <2>3, CodesUntouched DEF GoogleLink, Activate
    <2>. QED BY <2>1, <2>2, <2>3
  <1>. QED BY <1>1, <1>4, <1>5, WrittenKeeps, EndKeeps

LEMMA OthersKeep ==
  ASSUME CodesInv
  PROVE  /\ \A status \in Blocked : Block(status) => CodesInv'
         /\ \A age \in {Cool, Hour} : Time(age) => CodesInv'
  <1>1. ASSUME NEW status \in Blocked, Block(status) PROVE CodesInv'
    <2>1. RequestsKept
      BY <1>1, TypeParts DEF CodesInv, Block, RequestsKept
    <2>2. CodesKept /\ GuessesKept
      BY <1>1, CodesUntouched DEF Block
    <2>3. account' \in Account
      BY <1>1, AccountTypes DEF Block, Blocked, Statuses
    <2>4. late' = [q \in Requests |-> Overtaken(q)] /\ late \in [Requests -> BOOLEAN]
      BY <1>1, TypeParts DEF CodesInv, Block
    <2>5. late' \in [Requests -> BOOLEAN]
      BY <2>4 DEF Overtaken
    <2>6. AccountKept
      BY <1>1, <2>3, <2>4, <2>5 DEF AccountKept, Overtaken, Block
    <2>. QED BY <2>1, <2>2, <2>6, EndKeeps
  <1>2. ASSUME NEW age \in {Cool, Hour}, Time(age) PROVE CodesInv'
    <2>1. RequestsKept /\ AccountKept
      BY <1>2, TypeParts DEF CodesInv, Time, RequestsKept, AccountKept
    <2>2. TypeOK /\ Len(codes) \in Nat
      BY CodesAreSeq DEF CodesInv
    <2>3. /\ codes' \in Seq(Code) /\ DOMAIN codes' = DOMAIN codes /\ Len(codes') = Len(codes)
          /\ \A j \in DOMAIN codes : /\ codes'[j].purpose = codes[j].purpose
                                     /\ codes'[j].attempts = codes[j].attempts
                                     /\ codes[j].consumed => codes'[j].consumed
      BY <1>2, <2>2, AllAge
    <2>4. CodesKept /\ GuessesKept
      BY <2>2, <2>3 DEF CodesKept, GuessesKept
    <2>. QED BY <2>1, <2>4, EndKeeps
  <1>. QED BY <1>1, <1>2

LEMMA NextKeeps == CodesInv /\ [Next]_vars => CodesInv'
  <1>. SUFFICES ASSUME CodesInv, [Next]_vars PROVE CodesInv'
    OBVIOUS
  <1>1. CASE UNCHANGED vars
    BY <1>1, StutterKeeps
  <1>2. ASSUME NEW status \in Blocked, Block(status) PROVE CodesInv'
    BY <1>2, OthersKeep
  <1>3. ASSUME NEW age \in {Cool, Hour}, Time(age) PROVE CodesInv'
    BY <1>3, OthersKeep
  <1>4. ASSUME NEW r \in Requests, IssueStep(r) PROVE CodesInv'
    BY <1>4, ReadsKeep, IssueConsumeKeeps, CodeWritesKeep, AccountWritesKeep DEF IssueStep
  <1>5. ASSUME NEW r \in Requests, EnterStep(r) PROVE CodesInv'
    BY <1>5, ReadsKeep, EnterKeeps, MissKeeps, CodeWritesKeep, AccountWritesKeep DEF EnterStep
  <1>6. ASSUME NEW r \in Requests, AccountStep(r) PROVE CodesInv'
    BY <1>6, ReadsKeep, AccountWritesKeep DEF AccountStep
  <1>. QED BY <1>1, <1>2, <1>3, <1>4, <1>5, <1>6 DEF Next

LEMMA CodesInvariant == Spec => []CodesInv
  <1>. QED BY InitCodes, NextKeeps, PTL DEF Spec

-----------------------------------------------------------------------------
(* The theorems                                                              *)

\* The types, and that a request that writes to a code has read one of its purpose: verify,
\* resetPassword and the issuing functions act on a row that is still there.
THEOREM CodesTypeCorrect == Spec => []TypeOK
  <1>1. CodesInv => TypeOK
    BY DEF CodesInv
  <1>. QED BY <1>1, CodesInvariant, PTL

\* A code is not guessed more often than OTP_MAX_ATTEMPTS allows, but for as many guesses as
\* requests were checking one at the same time.
THEOREM GuessesStayBounded == Spec => []GuessesBounded
  <1>1. CodesInv => GuessesBounded
    <2>. SUFFICES ASSUME CodesInv, NEW i \in DOMAIN codes
                  PROVE  codes[i].attempts < MaxGuesses + Cardinality(Requests)
      BY DEF GuessesBounded
    <2>1. codes[i].attempts \in Nat /\ MaxGuesses \in Nat
      BY CodesAreSeq, CodeAssumption DEF CodesInv, Code
    <2>2. codes[i].attempts + Cardinality(Missing(i)) <= MaxGuesses - 1 + Cardinality(Requests)
      BY DEF CodesInv, GuessesReserved
    <2>. QED BY <2>1, <2>2, MissingBounded
  <1>. QED BY <1>1, CodesInvariant, PTL

\* While a request is creating a code, the only valid ones for the purpose are those that
\* others have created since it consumed the earlier.
THEOREM EarlierCodesConsumed == Spec => []Superseded
  <1>1. CodesInv => Superseded
    BY DEF CodesInv, SupersededSince, Superseded, Live
  <1>. QED BY <1>1, CodesInvariant, PTL

\* Register, verification, Google sign-in and the workspaces leave a suspended or disabled
\* account so, and an active one active, unless they were overtaken after they read it.
THEOREM StatusesStand == Spec => StatusStands
  <1>. DEFINE Kept == /\ account.status \in Blocked => account'.status \in Blocked
                      /\ account.status = "ACTIVE" => account'.status \in {"ACTIVE"} \cup Blocked
              Stands == Kept \/ \E r \in Requests : late[r] /\ Busy(r) /\ ~Busy(r)'
  <1>1. ASSUME CodesInv, [Next]_vars PROVE [Stands]_vars
    <2>. SUFFICES ASSUME Next, \A r \in Requests : ~(late[r] /\ Busy(r) /\ ~Busy(r)')
                  PROVE  Kept
      BY <1>1
    <2>1. ASSUME NEW r \in Requests, req[r].pc # "idle", Written(r)
          PROVE  Told(req[r])
      <3>1. req'[r] = Idle
        BY <1>1, <2>1, Answered DEF Written
      <3>2. Busy(r) /\ ~Busy(r)'
        BY <2>1, <3>1 DEF Busy, Idle
      <3>. QED BY <1>1, <3>2 DEF CodesInv, ReadIsCurrent
    <2>2. account \in Account
      BY <1>1, TypeParts DEF CodesInv
    <2>3. ASSUME NEW r \in Requests, RegisterWrite(r) \/ Activate(r) PROVE Kept
      <3>1. account.status \notin Blocked \cup {"ACTIVE"}
        BY <2>1, <2>3 DEF RegisterWrite, Activate, At, Told, Blocked
      <3>. QED BY <3>1
    <2>4. ASSUME NEW r \in Requests, Promote(r) PROVE Kept
      <3>1. Told(req[r]) /\ req[r].pc = "promote"
        BY <2>1, <2>4 DEF Promote, At
      <3>2. req[r].status = account.status /\ account' = Promoted(req[r].status)
        BY <2>4, <3>1 DEF Told, Promote
      <3>. QED BY <2>2, <3>2 DEF Promoted, Account, Blocked
    <2>5. ASSUME NEW r \in Requests, GoogleLink(r) PROVE Kept
      <3>1. Told(req[r]) /\ req[r].pc = "link"
        BY <2>1, <2>5 DEF GoogleLink, At
      <3>2. req[r].status = account.status
        BY <3>1 DEF Told
      <3>. QED BY <2>5, <3>2 DEF GoogleLink, Blocked
    <2>6. ASSUME NEW status \in Blocked, Block(status) PROVE Kept
      BY <2>2, <2>6 DEF Block, Account
    <2>7. CASE UNCHANGED account
      BY <2>7
    <2>. QED BY <2>3, <2>4, <2>5, <2>6, <2>7
            DEF Next, IssueStep, EnterStep, AccountStep, Time, AskCode, ForgotPassword,
                IssueConsume, IssueCreate, RegisterRead, Enter, Exhaust, Miss, Spend, UseRead,
                GoogleRead, JoinRead, WorkspaceRead
  <1>2. (CodesInv /\ [Next]_vars => [Stands]_vars)
    BY <1>1
  <1>. QED BY <1>2, CodesInvariant, PTL DEF Spec, StatusStands
=============================================================================
