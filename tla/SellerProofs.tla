---------------------------- MODULE SellerProofs ----------------------------
(***************************************************************************)
(* What holds of a seller's account and of the requests to the studio, for *)
(* every value of their constants.                                         *)
(*                                                                         *)
(* The account: any number of overlapping calls, any limits and any number *)
(* of codes and sessions.  AccountsInv is inductive: it says what a call   *)
(* may rely on of what it has read, counts the guesses under way with      *)
(* those counted, keeps the password a login has read ahead of the last    *)
(* completed reset unless the reset has seen the login, and allows one     *)
(* login at a time while nothing overlaps.                                 *)
(*                                                                         *)
(* The studio: any requests, services and disks.  StudioInv is inductive:  *)
(* it says what a handler that has not answered has done so far, by what   *)
(* it waits for: a service is called for a request in order only, and for  *)
(* the final rendering, which views were asked for, which of them are      *)
(* shown, and how often the generator has been asked.                      *)
(***************************************************************************)
EXTENDS Accounts, Studio, FiniteSetTheorems, SequenceTheorems, WellFoundedInduction,
        TLAPS

-----------------------------------------------------------------------------
(* The inductive invariant.                                                *)

\* What a call has read and holds: the code it mails or compares and the
\* session it touches exist; the seller a login read had a password no newer
\* than the seller's, and none a completed reset replaced, unless the login
\* was under way then.
CallSound(c) ==
  call[c] # None =>
    /\ call[c].step \in {"mail", "compare"} =>
         call[c].row \in DOMAIN codes[call[c].purpose]
    /\ call[c].step \in {"touch", "drop"} => call[c].row \in DOMAIN sessions
    /\ call[c].step \in {"password", "open"} =>
         /\ call[c].seller # None
         /\ call[c].seller.password \in 1 .. seller.password
         /\ call[c].seller.password >= swept \/ call[c].overlapped

CallsSound == \A c \in Calls : CallSound(c)

\* The calls that have read a code and not yet compared it.
Comparers(p, k) ==
  {c \in Calls : At(c, "compare") /\ call[c].purpose = p /\ call[c].row = k}

\* The guesses a code has had and those under way: a call that has still to
\* read the code adds to them only while the code has attempts left.
GuessesLeft ==
  \A p \in Purposes : \A k \in DOMAIN codes[p] :
    codes[p][k].attempts + Cardinality(Comparers(p, k)) < MaxAttempts + Cardinality(Calls)

Renewed == swept <= seller.password /\ SessionsRenewed

\* While no login has overlapped another write, at most one is between its
\* read and its write, and the count it read is still the seller's.
Counted ==
  /\ seller.password = 0 => wrong = 0
  /\ alone =>
       \A c \in Calls : At(c, "password") =>
         /\ call[c].seller.failures = seller.failures
         /\ \A d \in Calls : At(d, "password") => d = c
  /\ FailuresCounted

AccountsInv == TypeOK /\ CallsSound /\ GuessesLeft /\ Renewed /\ Counted

-----------------------------------------------------------------------------
(* How a step moves what the calls rely on.                                *)

LEMMA Rows == None \notin CallRows /\ None \notin SellerRows
BY AccountsAssumption

\* No code, session or password is taken back.
Grown ==
  /\ \A p \in Purposes : DOMAIN codes[p] \subseteq DOMAIN codes'[p]
  /\ DOMAIN sessions \subseteq DOMAIN sessions'
  /\ seller'.password >= seller.password
  /\ swept' = swept

LEMMA SoundCallKept ==
  ASSUME TypeOK, CallsSound, Grown, seller' \in SellerRows,
         NEW c \in Calls, call'[c] = call[c]
  PROVE  CallSound(c)'
<1>1. CallSound(c)
  BY DEF CallsSound
<1>2. CASE call[c] = None
  BY <1>2 DEF CallSound
<1>3. CASE call[c] # None
  <2>1. call[c] \in CallRows /\ call[c].purpose \in Purposes
    BY <1>3 DEF TypeOK, CallRows
  <2>2. seller.password \in Nat /\ seller'.password \in Nat
    BY DEF TypeOK, SellerRows
  <2>3. call[c].step \in {"mail", "compare"} =>
          call[c].row \in DOMAIN codes'[call[c].purpose]
    BY <1>1, <1>3, <2>1 DEF CallSound, Grown
  <2>4. call[c].step \in {"touch", "drop"} => call[c].row \in DOMAIN sessions'
    BY <1>1, <1>3 DEF CallSound, Grown
  <2>5. call[c].step \in {"password", "open"} =>
          /\ call[c].seller # None
          /\ call[c].seller.password \in 1 .. seller'.password
          /\ call[c].seller.password >= swept' \/ call[c].overlapped
    BY <1>1, <1>3, <2>2 DEF CallSound, Grown
  <2> QED
    BY <1>3, <2>3, <2>4, <2>5 DEF CallSound
<1> QED
  BY <1>2, <1>3

\* One call goes on to a sound place, or ends.
LEMMA CallsKept ==
  ASSUME TypeOK, CallsSound, Grown, seller' \in SellerRows,
         NEW c \in Calls, NEW new \in CallRows \cup {None},
         call' = [call EXCEPT ![c] = new], new # None => CallSound(c)'
  PROVE  CallsSound' /\ call' \in [Calls -> CallRows \cup {None}]
<1>1. call' \in [Calls -> CallRows \cup {None}] /\ call'[c] = new
      /\ \A d \in Calls : d # c => call'[d] = call[d]
  BY DEF TypeOK
<1>2. new = None => CallSound(c)'
  BY <1>1 DEF CallSound
<1>3. \A d \in Calls : d # c => CallSound(d)'
  BY <1>1, SoundCallKept
<1> QED
  BY <1>1, <1>2, <1>3 DEF CallsSound

LEMMA CallsStay ==
  ASSUME TypeOK, CallsSound, Grown, seller' \in SellerRows, UNCHANGED call
  PROVE  CallsSound' /\ call' \in [Calls -> CallRows \cup {None}]
<1>1. \A d \in Calls : CallSound(d)'
  BY SoundCallKept
<1> QED
  BY <1>1 DEF CallsSound, TypeOK

LEMMA ComparersFinite ==
  ASSUME NEW p, NEW k
  PROVE  /\ IsFiniteSet(Comparers(p, k)) /\ IsFiniteSet(Calls)
         /\ Cardinality(Comparers(p, k)) \in Nat /\ Cardinality(Calls) \in Nat
         /\ Cardinality(Comparers(p, k)) <= Cardinality(Calls)
<1>1. IsFiniteSet(Calls) /\ Comparers(p, k) \subseteq Calls
  BY AccountsAssumption DEF Comparers
<1> QED
  BY <1>1, FS_Subset, FS_CardinalityType

\* Fewer compare a code, and it has had as many guesses: it has some left.
LEMMA FewerCompare ==
  ASSUME TypeOK, NEW p, NEW k,
         Comparers(p, k)' \subseteq Comparers(p, k)
  PROVE  /\ Cardinality(Comparers(p, k)') \in Nat
         /\ Cardinality(Comparers(p, k)') <= Cardinality(Comparers(p, k))
<1>1. PICK S, T : S = Comparers(p, k)' /\ T = Comparers(p, k)
  OBVIOUS
<1>2. IsFiniteSet(T) /\ S \subseteq T
  BY <1>1, ComparersFinite
<1>3. Cardinality(S) <= Cardinality(T) /\ Cardinality(S) \in Nat
  BY <1>2, FS_Subset, FS_CardinalityType
<1> QED
  BY <1>1, <1>3

\* A call goes on to another step than the comparison, or ends.
LEMMA NoMoreCompare ==
  ASSUME TypeOK, NEW c \in Calls, NEW new \in CallRows \cup {None},
         call' = [call EXCEPT ![c] = new], new # None => new.step # "compare"
  PROVE  \A p \in Purposes : \A k : Comparers(p, k)' = Comparers(p, k) \ {c}
<1>1. call'[c] = new /\ \A d \in Calls : d # c => call'[d] = call[d]
  BY DEF TypeOK
<1>2. \A d \in Calls : At(d, "compare")' <=> d # c /\ At(d, "compare")
  BY <1>1 DEF At
<1> SUFFICES ASSUME NEW p \in Purposes, NEW k
             PROVE  Comparers(p, k)' = Comparers(p, k) \ {c}
  OBVIOUS
<1>3. \A d \in Calls : d \in Comparers(p, k)' <=> d \in Comparers(p, k) \ {c}
  BY <1>1, <1>2 DEF Comparers
<1>4. Comparers(p, k)' \subseteq Calls /\ Comparers(p, k) \subseteq Calls
  BY DEF Comparers
<1> QED
  BY <1>3, <1>4

LEMMA CodeTyped ==
  ASSUME TypeOK, NEW p \in Purposes, NEW k \in DOMAIN codes[p]
  PROVE  codes[p][k] \in CodeRows /\ codes[p][k].attempts \in Nat
<1>1. codes[p] \in Seq(CodeRows)
  BY DEF TypeOK
<1>2. codes[p][k] \in CodeRows
  BY <1>1
<1> QED
  BY <1>2 DEF CodeRows

\* Codes keep their guesses, and a new code has none.
GuessesStand ==
  \A p \in Purposes : \A k \in DOMAIN codes'[p] :
    /\ codes'[p][k].attempts \in Nat
    /\ k \in DOMAIN codes[p] => codes'[p][k].attempts = codes[p][k].attempts
    /\ k \notin DOMAIN codes[p] => codes'[p][k].attempts = 0

LEMMA GuessesKept ==
  ASSUME TypeOK, CallsSound, GuessesLeft, GuessesStand,
         NEW D, \A p \in Purposes : \A k : Comparers(p, k)' = Comparers(p, k) \ D
  PROVE  GuessesLeft'
<1> SUFFICES ASSUME NEW p \in Purposes, NEW k \in DOMAIN codes'[p]
             PROVE  codes'[p][k].attempts + Cardinality(Comparers(p, k)')
                      < MaxAttempts + Cardinality(Calls)
  BY DEF GuessesLeft
<1>1. PICK m \in Nat, n \in Nat, all \in Nat :
        /\ m = Cardinality(Comparers(p, k)') /\ n = Cardinality(Comparers(p, k))
        /\ all = Cardinality(Calls) /\ m <= n
  <2>1. Comparers(p, k)' \subseteq Comparers(p, k)
    OBVIOUS
  <2> QED
    BY <2>1, FewerCompare, ComparersFinite
<1>2. MaxAttempts \in Nat /\ MaxAttempts > 0 /\ codes'[p][k].attempts \in Nat
  BY AccountsAssumption DEF GuessesStand
<1>3. CASE k \in DOMAIN codes[p]
  <2>1. codes'[p][k].attempts = codes[p][k].attempts
    BY <1>3 DEF GuessesStand
  <2>2. codes[p][k].attempts + n < MaxAttempts + all
    BY <1>1, <1>3 DEF GuessesLeft
  <2> QED
    BY <1>1, <1>2, <2>1, <2>2
<1>4. CASE k \notin DOMAIN codes[p]
  <2>1. codes'[p][k].attempts = 0
    BY <1>4 DEF GuessesStand
  <2>2. Comparers(p, k) = {}
    BY <1>4 DEF Comparers, At, CallsSound, CallSound
  <2>3. n = 0
    BY <1>1, <2>2, FS_EmptySet
  <2> QED
    BY <1>1, <1>2, <2>1, <2>3
<1> QED
  BY <1>3, <1>4

LEMMA RenewedKept ==
  ASSUME TypeOK, Renewed, seller' \in SellerRows,
         swept' = swept, seller'.password >= seller.password,
         DOMAIN sessions' = DOMAIN sessions,
         \A s \in DOMAIN sessions :
           /\ sessions'[s].status # "deleted" => sessions[s].status # "deleted"
           /\ sessions'[s].password = sessions[s].password
           /\ sessions'[s].overlapped = sessions[s].overlapped
  PROVE  Renewed'
<1>1. swept' <= seller'.password
  BY DEF TypeOK, SellerRows, Renewed
<1>2. SessionsRenewed'
  BY DEF SessionsRenewed, Renewed
<1> QED
  BY <1>1, <1>2 DEF Renewed

LEMMA CountedKept ==
  ASSUME Counted, UNCHANGED <<seller, alone, wrong>>,
         \A d \in Calls : At(d, "password")' =>
           At(d, "password") /\ call'[d].seller = call[d].seller
  PROVE  Counted'
<1>1. FailuresCounted'
  BY DEF Counted, FailuresCounted
<1> QED
  BY <1>1 DEF Counted

\* A step that does nothing but send one call on.
LEMMA CallOnly ==
  ASSUME AccountsInv, NEW c \in Calls, NEW new \in CallRows \cup {None},
         call' = [call EXCEPT ![c] = new],
         new # None => new.step \notin {"compare", "password"} /\ CallSound(c)',
         UNCHANGED <<seller, codes, sessions, swept, alone, wrong>>
  PROVE  AccountsInv'
<1>1. TypeOK /\ CallsSound /\ GuessesLeft /\ Renewed /\ Counted
  BY DEF AccountsInv
<1>2. Grown /\ seller' \in SellerRows
  <2>1. seller.password \in Nat
    BY <1>1 DEF TypeOK, SellerRows
  <2> QED
    BY <1>1, <2>1 DEF Grown, TypeOK
<1>3. CallsSound' /\ call' \in [Calls -> CallRows \cup {None}]
  BY <1>1, <1>2, CallsKept
<1>4. TypeOK'
  BY <1>1, <1>3 DEF TypeOK
<1>5. GuessesLeft'
  <2>1. \A p \in Purposes : \A k : Comparers(p, k)' = Comparers(p, k) \ {c}
    BY <1>1, NoMoreCompare
  <2>2. GuessesStand
    BY <1>1, CodeTyped DEF GuessesStand
  <2> QED
    BY <1>1, <2>1, <2>2, GuessesKept
<1>6. Renewed'
  BY <1>1 DEF Renewed, SessionsRenewed
<1>7. Counted'
  <2>1. \A d \in Calls : At(d, "password")' =>
          At(d, "password") /\ call'[d].seller = call[d].seller
    BY <1>1 DEF TypeOK, At
  <2> QED
    BY <1>1, <2>1, CountedKept
<1> QED
  BY <1>3, <1>4, <1>5, <1>6, <1>7 DEF AccountsInv

\* Steps at which a call holds nothing that could have gone.
Light == {"create", "recent", "store", "find", "apply", "sweep"}

LEMMA LightSound ==
  ASSUME NEW c, call'[c] # None => call'[c].step \in Light
  PROVE  CallSound(c)'
BY DEF CallSound, Light

LEMMA Begun ==
  ASSUME TypeOK, NEW c \in Calls, NEW next \in Steps, NEW purpose \in Purposes,
         NEW typed \in Nat, NEW row \in Nat, NEW read \in SellerRows \cup {None},
         Begin(c, next, purpose, typed, row, read)
  PROVE  \E new \in CallRows :
           /\ call' = [call EXCEPT ![c] = new] /\ call'[c] = new
           /\ new.step = next /\ new.row = row /\ new.seller = read
           /\ call[c] = None
<1> DEFINE new == [step |-> next, purpose |-> purpose, typed |-> typed, row |-> row,
                   seller |-> read, overlapped |-> FALSE]
<1>1. new \in CallRows
  BY DEF CallRows
<1>2. /\ new.step = next /\ new.row = row /\ new.seller = read
      /\ call' = [call EXCEPT ![c] = new]
  BY DEF Begin
<1> HIDE DEF new
<1> QED
  BY <1>1, <1>2 DEF TypeOK, Begin

LEMMA Sent ==
  ASSUME TypeOK, NEW c \in Calls, call[c] # None, NEW next \in Steps, Goes(c, next)
  PROVE  \E new \in CallRows :
           /\ call' = [call EXCEPT ![c] = new] /\ call'[c] = new
           /\ new.step = next /\ new.row = call[c].row /\ new.purpose = call[c].purpose
           /\ new.seller = call[c].seller /\ new.overlapped = call[c].overlapped
<1>1. call[c] \in CallRows
  BY DEF TypeOK
<1> DEFINE new == [call[c] EXCEPT !.step = next]
<1>2. /\ new \in CallRows /\ new.step = next /\ new.row = call[c].row
      /\ new.purpose = call[c].purpose
      /\ new.seller = call[c].seller /\ new.overlapped = call[c].overlapped
  BY <1>1 DEF CallRows
<1>3. call' = [call EXCEPT ![c] = new]
  BY DEF Goes
<1> HIDE DEF new
<1> QED
  BY <1>2, <1>3 DEF TypeOK

-----------------------------------------------------------------------------
(* The steps that only send a call on.                                     *)

LEMMA EndStep ==
  ASSUME AccountsInv, NEW c \in Calls, Ends(c),
         UNCHANGED <<seller, codes, sessions, swept, alone, wrong>>
  PROVE  AccountsInv'
<1>1. call' = [call EXCEPT ![c] = None]
  BY DEF Ends
<1> QED
  BY <1>1, CallOnly

LEMMA BeginStep ==
  ASSUME AccountsInv, NEW c \in Calls, NEW next \in Light, NEW purpose \in Purposes,
         NEW typed \in Nat, Begin(c, next, purpose, typed, 0, None),
         UNCHANGED <<seller, codes, sessions, swept, alone, wrong>>
  PROVE  AccountsInv'
<1>1. TypeOK /\ next \in Steps /\ next \notin {"compare", "password"}
  BY DEF AccountsInv, Light, Steps
<1>2. PICK new \in CallRows :
        /\ call' = [call EXCEPT ![c] = new] /\ call'[c] = new /\ new.step = next
  BY <1>1, Begun
<1>3. CallSound(c)'
  BY <1>2, LightSound
<1> QED
  BY <1>1, <1>2, <1>3, CallOnly

LEMMA GoStep ==
  ASSUME AccountsInv, NEW c \in Calls, call[c] # None, NEW next \in Light, Goes(c, next),
         UNCHANGED <<seller, codes, sessions, swept, alone, wrong>>
  PROVE  AccountsInv'
<1>1. TypeOK /\ next \in Steps /\ next \notin {"compare", "password"}
  BY DEF AccountsInv, Light, Steps
<1>2. PICK new \in CallRows :
        /\ call' = [call EXCEPT ![c] = new] /\ call'[c] = new /\ new.step = next
  BY <1>1, Sent
<1>3. CallSound(c)'
  BY <1>2, LightSound
<1> QED
  BY <1>1, <1>2, <1>3, CallOnly

LEMMA CallOnlySteps ==
  ASSUME AccountsInv, NEW c \in Calls,
         \/ Register(c) \/ ResendCode(c) \/ ForgotPassword(c) \/ ReadRecent(c)
         \/ \E p \in Purposes : \E k \in {0} \cup DOMAIN codes[p] : TypeCode(c, p, k)
         \/ Unconfirmed(c) \/ CallFails(c)
  PROVE  AccountsInv'
<1>1. {"EMAIL_VERIFICATION", "PASSWORD_RESET"} = Purposes
      /\ {"create", "recent", "store", "find"} \subseteq Light
  BY DEF Purposes, Light
<1>2. CASE Register(c)
  BY <1>1, <1>2, BeginStep DEF Register
<1>3. CASE ResendCode(c)
  BY <1>1, <1>3, BeginStep DEF ResendCode
<1>4. CASE ForgotPassword(c)
  BY <1>1, <1>4, BeginStep DEF ForgotPassword
<1>5. CASE ReadRecent(c)
  BY <1>1, <1>5, GoStep, EndStep DEF ReadRecent, At
<1>6. ASSUME NEW p \in Purposes, NEW k \in {0} \cup DOMAIN codes[p], TypeCode(c, p, k)
      PROVE  AccountsInv'
  <2>1. k \in Nat
    <3>1. codes[p] \in Seq(CodeRows)
      BY DEF AccountsInv, TypeOK
    <3> QED
      BY <3>1
  <2> QED
    BY <1>1, <1>6, <2>1, BeginStep DEF TypeCode
<1>7. CASE Unconfirmed(c)
  BY <1>7, EndStep DEF Unconfirmed
<1>8. CASE CallFails(c)
  BY <1>8, EndStep DEF CallFails
<1> QED
  BY <1>2, <1>3, <1>4, <1>5, <1>6, <1>7, <1>8

\* A request with a session's cookie: the session exists.
LEMMA ValidateStep ==
  ASSUME AccountsInv, NEW c \in Calls, NEW s \in DOMAIN sessions, Validate(c, s)
  PROVE  AccountsInv'
<1> DEFINE next == IF sessions[s].status = "expired" THEN "drop" ELSE "touch"
<1>1. /\ Begin(c, next, "EMAIL_VERIFICATION", 0, s, None)
      /\ UNCHANGED <<seller, codes, sessions, swept, alone, wrong>>
  BY DEF Validate
<1>2. TypeOK /\ next \in Steps /\ next \in {"drop", "touch"}
      /\ "EMAIL_VERIFICATION" \in Purposes
  BY DEF AccountsInv, Steps, Purposes
<1>3. s \in Nat
  BY <1>2 DEF TypeOK
<1> HIDE DEF next
<1>4. PICK new \in CallRows :
        /\ call' = [call EXCEPT ![c] = new] /\ call'[c] = new /\ new.step = next
        /\ new.row = s
  BY <1>1, <1>2, <1>3, Begun
<1>5. CallSound(c)'
  BY <1>1, <1>2, <1>4 DEF CallSound
<1> QED
  BY <1>1, <1>2, <1>4, <1>5, CallOnly

-----------------------------------------------------------------------------
(* Codes.                                                                  *)

LEMMA LargestPlace ==
  ASSUME NEW n \in Nat, NEW S, S # {}, S \subseteq 1 .. n
  PROVE  Max(S) \in S
<1> DEFINE T == {n - x : x \in S}
<1>1. T \subseteq Nat /\ T # {}
  <2>1. \A x \in S : n - x \in Nat
    OBVIOUS
  <2> QED
    BY <2>1
<1>2. PICK m \in T : \A y \in T : m <= y
  <2>1. PICK m \in T : \A y \in T : ~ (<<y, m>> \in OpToRel(<, Nat))
    BY <1>1, NatLessThanWellFounded, WFMin
  <2>2. \A y \in T : ~ (y < m)
    BY <1>1, <2>1 DEF OpToRel
  <2> QED
    BY <1>1, <2>2
<1>3. PICK x \in S : m = n - x
  BY <1>2
<1>4. \A y \in S : n - x <= n - y /\ y \in Nat /\ x \in Nat
  <2>1. \A y \in S : n - y \in T /\ y \in Nat
    OBVIOUS
  <2> HIDE DEF T
  <2> QED
    BY <1>2, <1>3, <2>1
<1>5. \A y \in S : x >= y
  BY <1>4
<1> QED
  BY <1>3, <1>5 DEF Max

\* One code row changes.
LEMMA RowChange ==
  ASSUME TypeOK, NEW p \in Purposes, NEW k \in DOMAIN codes[p], NEW row \in CodeRows,
         codes' = [codes EXCEPT ![p] = [codes[p] EXCEPT ![k] = row]]
  PROVE  /\ codes' \in [Purposes -> Seq(CodeRows)]
         /\ \A q \in Purposes : DOMAIN codes'[q] = DOMAIN codes[q]
         /\ \A q \in Purposes : \A j \in DOMAIN codes[q] :
              codes'[q][j] = IF q = p /\ j = k THEN row ELSE codes[q][j]
<1>1. codes \in [Purposes -> Seq(CodeRows)] /\ codes[p] \in Seq(CodeRows)
  BY DEF TypeOK
<1>2. PICK old, new : old = codes[p] /\ new = [old EXCEPT ![k] = row]
  OBVIOUS
<1>3. /\ new \in Seq(CodeRows) /\ DOMAIN new = DOMAIN old /\ new[k] = row
      /\ \A j \in DOMAIN old : j # k => new[j] = old[j]
  BY <1>1, <1>2, ExceptSeq
<1>4. codes'[p] = new /\ \A q \in Purposes : q # p => codes'[q] = codes[q]
  BY <1>1, <1>2
<1>5. codes' \in [Purposes -> Seq(CodeRows)]
  BY <1>1, <1>2, <1>3
<1> QED
  BY <1>2, <1>3, <1>4, <1>5

\* A row changes and keeps its guesses.
LEMMA CodesKept ==
  ASSUME AccountsInv, NEW p \in Purposes, NEW k \in DOMAIN codes[p], NEW row \in CodeRows,
         row.attempts = codes[p][k].attempts,
         codes' = [codes EXCEPT ![p] = [codes[p] EXCEPT ![k] = row]],
         UNCHANGED <<seller, sessions, swept>>
  PROVE  Grown /\ GuessesStand /\ codes' \in [Purposes -> Seq(CodeRows)]
<1>1. TypeOK
  BY DEF AccountsInv
<1>2. /\ codes' \in [Purposes -> Seq(CodeRows)]
      /\ \A q \in Purposes : DOMAIN codes'[q] = DOMAIN codes[q]
      /\ \A q \in Purposes : \A j \in DOMAIN codes[q] :
           codes'[q][j] = IF q = p /\ j = k THEN row ELSE codes[q][j]
  BY <1>1, RowChange
<1>3. Grown
  <2>1. seller.password \in Nat
    BY <1>1 DEF TypeOK, SellerRows
  <2> QED
    BY <1>2, <2>1 DEF Grown
<1>4. GuessesStand
  <2>1. \A q \in Purposes : \A j \in DOMAIN codes[q] :
          codes[q][j].attempts \in Nat /\ codes'[q][j].attempts = codes[q][j].attempts
    BY <1>1, <1>2, CodeTyped
  <2> QED
    BY <1>2, <2>1 DEF GuessesStand
<1> QED
  BY <1>2, <1>3, <1>4

\* Codes change as Grown and GuessesStand say, and a call goes on or ends.
LEMMA CodesStep ==
  ASSUME AccountsInv, NEW c \in Calls, NEW new \in CallRows \cup {None},
         call' = [call EXCEPT ![c] = new],
         new # None => new.step \notin {"compare", "password"} /\ CallSound(c)',
         Grown, GuessesStand, codes' \in [Purposes -> Seq(CodeRows)],
         UNCHANGED <<seller, sessions, swept, alone, wrong>>
  PROVE  AccountsInv'
<1>1. TypeOK /\ CallsSound /\ GuessesLeft /\ Renewed /\ Counted
  BY DEF AccountsInv
<1>2. seller' \in SellerRows
  BY <1>1 DEF TypeOK
<1>3. CallsSound' /\ call' \in [Calls -> CallRows \cup {None}]
  BY <1>1, <1>2, CallsKept
<1>4. TypeOK'
  BY <1>1, <1>3 DEF TypeOK
<1>5. GuessesLeft'
  <2>1. \A p \in Purposes : \A k : Comparers(p, k)' = Comparers(p, k) \ {c}
    BY <1>1, NoMoreCompare
  <2> QED
    BY <1>1, <2>1, GuessesKept
<1>6. Renewed'
  BY <1>1 DEF Renewed, SessionsRenewed
<1>7. Counted'
  <2>1. \A d \in Calls : At(d, "password")' =>
          At(d, "password") /\ call'[d].seller = call[d].seller
    BY <1>1 DEF TypeOK, At
  <2> QED
    BY <1>1, <2>1, CountedKept
<1> QED
  BY <1>3, <1>4, <1>5, <1>6, <1>7 DEF AccountsInv

\* The same when no call moves.
LEMMA CodesAge ==
  ASSUME AccountsInv, Grown, GuessesStand, codes' \in [Purposes -> Seq(CodeRows)],
         UNCHANGED <<seller, sessions, call, swept, alone, wrong>>
  PROVE  AccountsInv'
<1>1. TypeOK /\ CallsSound /\ GuessesLeft /\ Renewed /\ Counted
  BY DEF AccountsInv
<1>2. TypeOK' /\ seller' \in SellerRows
  BY <1>1 DEF TypeOK
<1>3. CallsSound'
  BY <1>1, <1>2, CallsStay
<1>4. GuessesLeft'
  <2>1. \A p \in Purposes : \A k : Comparers(p, k)' = Comparers(p, k) \ {}
    BY DEF Comparers, At
  <2> QED
    BY <1>1, <2>1, GuessesKept
<1>5. Renewed'
  BY <1>1 DEF Renewed, SessionsRenewed
<1>6. Counted'
  BY <1>1, CountedKept DEF At
<1> QED
  BY <1>2, <1>3, <1>4, <1>5, <1>6 DEF AccountsInv

LEMMA FindStep ==
  ASSUME AccountsInv, NEW c \in Calls, FindCode(c)
  PROVE  AccountsInv'
<1> DEFINE p == call[c].purpose
           open == {k \in DOMAIN codes[p] : ~codes[p][k].consumed}
           m == Max(open)
           found == open # {} /\ Guessable(codes[p][m])
<1>1. TypeOK /\ CallsSound /\ GuessesLeft /\ Renewed /\ Counted
  BY DEF AccountsInv
<1>2. /\ At(c, "find") /\ call[c] # None /\ call[c] \in CallRows /\ p \in Purposes
      /\ UNCHANGED <<seller, codes, sessions, swept, alone, wrong>>
  BY <1>1 DEF FindCode, TypeOK, At, CallRows
<1>3. CASE ~found
  BY <1>2, <1>3, EndStep DEF FindCode
<1>4. CASE found
  <2>1. m \in open
    <3>1. codes[p] \in Seq(CodeRows)
      BY <1>1, <1>2 DEF TypeOK
    <3>2. PICK n \in Nat : DOMAIN codes[p] = 1 .. n
      BY <3>1, LenProperties
    <3>3. PICK S : S = open
      OBVIOUS
    <3>4. S \subseteq 1 .. n /\ S # {}
      BY <1>4, <3>2, <3>3
    <3>5. Max(S) \in S
      BY <3>2, <3>4, LargestPlace
    <3> QED
      BY <3>3, <3>5
  <2>2. m \in DOMAIN codes[p] /\ m \in Nat /\ codes[p][m].attempts < MaxAttempts
    <3>1. codes[p] \in Seq(CodeRows)
      BY <1>1, <1>2 DEF TypeOK
    <3>2. m \in DOMAIN codes[p]
      BY <2>1
    <3>3. codes[p][m].attempts < MaxAttempts
      BY <1>4 DEF Guessable
    <3> HIDE DEF m, open
    <3>4. m \in Nat
      BY <3>1, <3>2
    <3> QED
      BY <3>2, <3>3, <3>4
  <2> DEFINE new == [[call[c] EXCEPT !.step = "compare"] EXCEPT !.row = m]
  <2>3. call' = [call EXCEPT ![c] = new]
    BY <1>1, <1>2, <1>4 DEF FindCode, TypeOK
  <2> HIDE DEF m, found, open
  <2>4. /\ new \in CallRows /\ new.step = "compare" /\ new.row = m /\ new.purpose = p
        /\ new # None
    <3>1. new \in CallRows /\ new.step = "compare" /\ new.row = m /\ new.purpose = p
      BY <1>2, <2>2 DEF CallRows, Steps
    <3> HIDE DEF new
    <3> QED
      BY <3>1, Rows
  <2> HIDE DEF new, p
  <2>5. call'[c] = new /\ \A d \in Calls : d # c => call'[d] = call[d]
    BY <1>1, <2>3 DEF TypeOK
  <2>6. CallSound(c)'
    BY <1>2, <2>2, <2>4, <2>5 DEF CallSound
  <2>7. Grown /\ seller' \in SellerRows
    <3>1. seller.password \in Nat
      BY <1>1 DEF TypeOK, SellerRows
    <3> QED
      BY <1>1, <1>2, <3>1 DEF Grown, TypeOK
  <2>8. CallsSound' /\ call' \in [Calls -> CallRows \cup {None}]
    BY <1>1, <2>3, <2>4, <2>6, <2>7, CallsKept
  <2>9. TypeOK'
    BY <1>1, <1>2, <2>8 DEF TypeOK
  <2>10. GuessesLeft'
    <3> SUFFICES ASSUME NEW q \in Purposes, NEW k \in DOMAIN codes[q]
                 PROVE  codes[q][k].attempts + Cardinality(Comparers(q, k)')
                          < MaxAttempts + Cardinality(Calls)
      BY <1>2 DEF GuessesLeft
    <3>1. codes[q][k].attempts \in Nat /\ MaxAttempts \in Nat
      BY <1>1, CodeTyped, AccountsAssumption
    <3>2. codes[q][k].attempts + Cardinality(Comparers(q, k))
            < MaxAttempts + Cardinality(Calls)
      BY <1>1 DEF GuessesLeft
    <3>3. CASE q = p /\ k = m
      <4>1. Comparers(q, k)' \subseteq Calls
        BY DEF Comparers
      <4>2. PICK S : S = Comparers(q, k)' /\ S \subseteq Calls
        BY <4>1
      <4>3. PICK i \in Nat, all \in Nat :
              i = Cardinality(S) /\ all = Cardinality(Calls) /\ i <= all
        BY <4>2, AccountsAssumption, FS_Subset, FS_CardinalityType
      <4>4. codes[q][k].attempts < MaxAttempts
        BY <2>2, <3>3
      <4>5. codes[q][k].attempts + i < MaxAttempts + all
        BY <3>1, <4>3, <4>4
      <4> QED
        BY <4>2, <4>3, <4>5
    <3>4. CASE ~(q = p /\ k = m)
      <4>1. \A d \in Calls : d \in Comparers(q, k)' => d \in Comparers(q, k)
        BY <2>4, <2>5, <3>4 DEF Comparers, At
      <4>2. Comparers(q, k)' \subseteq Comparers(q, k)
        BY <4>1 DEF Comparers
      <4>3. PICK i \in Nat, j \in Nat, all \in Nat :
              /\ i = Cardinality(Comparers(q, k)') /\ j = Cardinality(Comparers(q, k))
              /\ all = Cardinality(Calls) /\ i <= j
        BY <1>1, <4>2, FewerCompare, ComparersFinite
      <4>4. codes[q][k].attempts + j < MaxAttempts + all
        BY <3>2, <4>3
      <4>5. codes[q][k].attempts + i < MaxAttempts + all
        BY <3>1, <4>3, <4>4
      <4> QED
        BY <4>3, <4>5
    <3> QED
      BY <3>3, <3>4
  <2>11. Renewed'
    BY <1>1, <1>2 DEF Renewed, SessionsRenewed
  <2>12. Counted'
    <3>1. \A d \in Calls : At(d, "password")' =>
            At(d, "password") /\ call'[d].seller = call[d].seller
      BY <2>4, <2>5 DEF At
    <3> QED
      BY <1>1, <1>2, <3>1, CountedKept
  <2> QED
    BY <2>8, <2>9, <2>10, <2>11, <2>12 DEF AccountsInv
<1> QED
  BY <1>3, <1>4

LEMMA StoreStep ==
  ASSUME AccountsInv, NEW c \in Calls, StoreCode(c)
  PROVE  AccountsInv'
<1> DEFINE p == call[c].purpose
           rows == codes[p]
           fresh == [attempts |-> 0, consumed |-> FALSE, expired |-> FALSE,
                     cooling |-> TRUE, mailed |-> FALSE]
           new == [[call[c] EXCEPT !.step = "mail"] EXCEPT !.row = Len(rows) + 1]
<1>1. TypeOK /\ CallsSound
  BY DEF AccountsInv
<1>2. /\ call[c] # None /\ call[c] \in CallRows /\ p \in Purposes
      /\ codes' = [codes EXCEPT ![p] = Append(rows, fresh)]
      /\ call' = [call EXCEPT ![c] = new]
      /\ UNCHANGED <<seller, sessions, swept, alone, wrong>>
  BY <1>1 DEF StoreCode, TypeOK, At, CallRows
<1>3. rows \in Seq(CodeRows) /\ fresh \in CodeRows
  BY <1>1, <1>2 DEF TypeOK, CodeRows
<1>4. fresh.attempts = 0
  OBVIOUS
<1> HIDE DEF fresh
<1>5. /\ Append(rows, fresh) \in Seq(CodeRows) /\ Len(rows) \in Nat
      /\ DOMAIN rows = 1 .. Len(rows)
      /\ DOMAIN Append(rows, fresh) = 1 .. (Len(rows) + 1)
      /\ Append(rows, fresh)[Len(rows) + 1] = fresh
      /\ \A k \in 1 .. Len(rows) : Append(rows, fresh)[k] = rows[k]
  <2>1. PICK old : old = rows /\ old \in Seq(CodeRows)
    BY <1>3
  <2>2. /\ Append(old, fresh) \in Seq(CodeRows)
        /\ Len(Append(old, fresh)) = Len(old) + 1
        /\ \A k \in 1 .. Len(old) : Append(old, fresh)[k] = old[k]
        /\ Append(old, fresh)[Len(old) + 1] = fresh
    BY <1>3, <2>1, AppendProperties
  <2>3. Len(old) \in Nat /\ DOMAIN old = 1 .. Len(old)
    BY <2>1, LenProperties
  <2>4. DOMAIN Append(old, fresh) = 1 .. (Len(old) + 1)
    BY <2>2, LenProperties
  <2> QED
    BY <2>1, <2>2, <2>3, <2>4
<1>6. /\ codes' \in [Purposes -> Seq(CodeRows)]
      /\ codes'[p] = Append(rows, fresh)
      /\ \A q \in Purposes : q # p => codes'[q] = codes[q]
  BY <1>1, <1>2, <1>5 DEF TypeOK
<1> HIDE DEF rows
<1>7. Grown
  <2>1. seller.password \in Nat
    BY <1>1 DEF TypeOK, SellerRows
  <2>2. \A q \in Purposes : DOMAIN codes[q] \subseteq DOMAIN codes'[q]
    BY <1>5, <1>6 DEF rows
  <2> QED
    BY <1>2, <2>1, <2>2 DEF Grown
<1>8. GuessesStand
  <2> SUFFICES ASSUME NEW q \in Purposes, NEW k \in DOMAIN codes'[q]
               PROVE  /\ codes'[q][k].attempts \in Nat
                      /\ k \in DOMAIN codes[q] =>
                           codes'[q][k].attempts = codes[q][k].attempts
                      /\ k \notin DOMAIN codes[q] => codes'[q][k].attempts = 0
    BY DEF GuessesStand
  <2>1. CASE q # p
    BY <1>1, <1>6, <2>1, CodeTyped
  <2>2. CASE q = p /\ k \in DOMAIN rows
    BY <1>1, <1>2, <1>5, <1>6, <2>2, CodeTyped DEF rows
  <2>3. CASE q = p /\ k \notin DOMAIN rows
    <3>1. k = Len(rows) + 1
      BY <1>5, <1>6, <2>3
    <3> QED
      BY <1>4, <1>5, <1>6, <2>3, <3>1 DEF rows
  <2> QED
    BY <2>1, <2>2, <2>3
<1>9. /\ new \in CallRows /\ new.step = "mail" /\ new.row = Len(rows) + 1
      /\ new.purpose = p
  <2>1. PICK n \in Nat : n = Len(rows) + 1
    BY <1>5
  <2>2. new = [[call[c] EXCEPT !.step = "mail"] EXCEPT !.row = n]
    BY <2>1
  <2>3. /\ [[call[c] EXCEPT !.step = "mail"] EXCEPT !.row = n] \in CallRows
        /\ [[call[c] EXCEPT !.step = "mail"] EXCEPT !.row = n].step = "mail"
        /\ [[call[c] EXCEPT !.step = "mail"] EXCEPT !.row = n].row = n
        /\ [[call[c] EXCEPT !.step = "mail"] EXCEPT !.row = n].purpose = call[c].purpose
    BY <1>2 DEF CallRows, Steps
  <2> HIDE DEF new
  <2> QED
    BY <2>1, <2>2, <2>3
<1> HIDE DEF new
<1>10. CallSound(c)'
  <2>1. call'[c] = new
    BY <1>1, <1>2 DEF TypeOK
  <2>2. Len(rows) + 1 \in DOMAIN codes'[p]
    BY <1>5, <1>6
  <2> QED
    BY <1>9, <2>1, <2>2 DEF CallSound
<1> QED
  BY <1>2, <1>6, <1>7, <1>8, <1>9, <1>10, CodesStep

LEMMA MailStep ==
  ASSUME AccountsInv, NEW c \in Calls, MailCode(c)
  PROVE  AccountsInv'
<1> DEFINE p == call[c].purpose
           k == call[c].row
           row == [codes[p][k] EXCEPT !.mailed = TRUE]
<1>1. TypeOK /\ CallsSound
  BY DEF AccountsInv
<1>2. /\ call[c] # None /\ call[c] \in CallRows /\ p \in Purposes
      /\ call[c].step = "mail"
      /\ codes' = [codes EXCEPT ![p] = [codes[p] EXCEPT ![k] = row]]
      /\ call' = [call EXCEPT ![c] = None]
      /\ UNCHANGED <<seller, sessions, swept, alone, wrong>>
  BY <1>1 DEF MailCode, TypeOK, At, CallRows, Ends
<1>3. k \in DOMAIN codes[p]
  BY <1>1, <1>2 DEF CallsSound, CallSound
<1>4. row \in CodeRows /\ row.attempts = codes[p][k].attempts
  <2>1. codes[p][k] \in CodeRows
    BY <1>1, <1>2, <1>3, CodeTyped
  <2> QED
    BY <2>1 DEF CodeRows
<1> HIDE DEF p, k, row
<1>5. Grown /\ GuessesStand /\ codes' \in [Purposes -> Seq(CodeRows)]
  BY <1>2, <1>3, <1>4, CodesKept
<1> QED
  BY <1>2, <1>5, CodesStep

LEMMA AgeStep ==
  ASSUME AccountsInv, NEW p \in Purposes, NEW k \in DOMAIN codes[p],
         PauseEnds(p, k) \/ CodeExpires(p, k)
  PROVE  AccountsInv'
<1>1. TypeOK /\ codes[p][k] \in CodeRows
  BY CodeTyped DEF AccountsInv
<1>2. PICK row \in CodeRows :
        /\ row.attempts = codes[p][k].attempts
        /\ codes' = [codes EXCEPT ![p] = [codes[p] EXCEPT ![k] = row]]
  <2>1. CASE PauseEnds(p, k)
    <3> DEFINE row == [codes[p][k] EXCEPT !.cooling = FALSE]
    <3>1. row \in CodeRows /\ row.attempts = codes[p][k].attempts
      BY <1>1 DEF CodeRows
    <3>2. codes' = [codes EXCEPT ![p] = [codes[p] EXCEPT ![k] = row]]
      BY <1>1, <2>1 DEF PauseEnds, TypeOK
    <3> HIDE DEF row
    <3> QED
      BY <3>1, <3>2
  <2>2. CASE CodeExpires(p, k)
    <3> DEFINE row == [codes[p][k] EXCEPT !.expired = TRUE]
    <3>1. row \in CodeRows /\ row.attempts = codes[p][k].attempts
      BY <1>1 DEF CodeRows
    <3>2. codes' = [codes EXCEPT ![p] = [codes[p] EXCEPT ![k] = row]]
      BY <1>1, <2>2 DEF CodeExpires, TypeOK
    <3> HIDE DEF row
    <3> QED
      BY <3>1, <3>2
  <2> QED
    BY <2>1, <2>2
<1>3. UNCHANGED <<seller, sessions, call, swept, alone, wrong>>
  BY DEF PauseEnds, CodeExpires
<1>4. Grown /\ GuessesStand /\ codes' \in [Purposes -> Seq(CodeRows)]
  BY <1>2, <1>3, CodesKept
<1> QED
  BY <1>3, <1>4, CodesAge

\* The right code is used up; a wrong guess counts as the call stops comparing.
LEMMA CompareStep ==
  ASSUME AccountsInv, NEW c \in Calls, CompareCode(c)
  PROVE  AccountsInv'
<1> DEFINE p == call[c].purpose
           k == call[c].row
<1>1. TypeOK /\ CallsSound /\ GuessesLeft /\ Renewed /\ Counted
  BY DEF AccountsInv
<1>2. /\ At(c, "compare") /\ call[c] # None /\ call[c] \in CallRows /\ p \in Purposes
      /\ call[c].step = "compare"
      /\ UNCHANGED <<seller, sessions, swept, alone, wrong>>
  BY <1>1 DEF CompareCode, TypeOK, At, CallRows
<1>3. k \in DOMAIN codes[p] /\ codes[p][k] \in CodeRows /\ codes[p][k].attempts \in Nat
  BY <1>1, <1>2, CodeTyped DEF CallsSound, CallSound
<1>4. CASE call[c].typed = k
  <2> DEFINE row == [codes[p][k] EXCEPT !.consumed = TRUE]
  <2>1. codes' = [codes EXCEPT ![p] = [codes[p] EXCEPT ![k] = row]] /\ Goes(c, "apply")
    BY <1>1, <1>4 DEF CompareCode, TypeOK
  <2>2. row \in CodeRows /\ row.attempts = codes[p][k].attempts
    BY <1>3 DEF CodeRows
  <2>3. "apply" \in Steps /\ "apply" \in Light
    BY DEF Steps, Light
  <2>4. PICK new \in CallRows :
          /\ call' = [call EXCEPT ![c] = new] /\ call'[c] = new /\ new.step = "apply"
    BY <1>1, <1>2, <2>1, <2>3, Sent
  <2>5. CallSound(c)'
    BY <2>3, <2>4, LightSound
  <2> HIDE DEF row, p, k
  <2>6. Grown /\ GuessesStand /\ codes' \in [Purposes -> Seq(CodeRows)]
    BY <1>2, <1>3, <2>1, <2>2, CodesKept
  <2> QED
    BY <1>2, <2>4, <2>5, <2>6, CodesStep
<1>5. CASE call[c].typed # k
  <2> DEFINE row == [codes[p][k] EXCEPT !.attempts = codes[p][k].attempts + 1]
  <2>1. codes' = [codes EXCEPT ![p] = [codes[p] EXCEPT ![k] = row]]
        /\ call' = [call EXCEPT ![c] = None]
    BY <1>1, <1>5 DEF CompareCode, TypeOK, Ends
  <2>2. row \in CodeRows /\ row.attempts = codes[p][k].attempts + 1
    BY <1>3 DEF CodeRows
  <2> HIDE DEF row
  <2>3. /\ codes' \in [Purposes -> Seq(CodeRows)]
        /\ \A q \in Purposes : DOMAIN codes'[q] = DOMAIN codes[q]
        /\ \A q \in Purposes : \A j \in DOMAIN codes[q] :
             codes'[q][j] = IF q = p /\ j = k THEN row ELSE codes[q][j]
    <3> HIDE DEF p, k
    <3> QED
      BY <1>1, <1>2, <1>3, <2>1, <2>2, RowChange
  <2>4. Grown /\ seller' \in SellerRows
    <3>1. seller.password \in Nat
      BY <1>1 DEF TypeOK, SellerRows
    <3> QED
      BY <1>1, <1>2, <2>3, <3>1 DEF Grown, TypeOK
  <2>5. CallsSound' /\ call' \in [Calls -> CallRows \cup {None}]
    BY <1>1, <2>1, <2>4, CallsKept
  <2>6. TypeOK'
    BY <1>1, <1>2, <2>3, <2>5 DEF TypeOK
  <2>7. \A q \in Purposes : \A j : Comparers(q, j)' = Comparers(q, j) \ {c}
    BY <1>1, <2>1, NoMoreCompare
  <2>8. GuessesLeft'
    <3> SUFFICES ASSUME NEW q \in Purposes, NEW j \in DOMAIN codes[q]
                 PROVE  codes'[q][j].attempts + Cardinality(Comparers(q, j)')
                          < MaxAttempts + Cardinality(Calls)
      BY <2>3 DEF GuessesLeft
    <3>1. codes[q][j].attempts \in Nat /\ MaxAttempts \in Nat
      BY <1>1, CodeTyped, AccountsAssumption
    <3>2. codes[q][j].attempts + Cardinality(Comparers(q, j))
            < MaxAttempts + Cardinality(Calls)
      BY <1>1 DEF GuessesLeft
    <3>3. Comparers(q, j)' = Comparers(q, j) \ {c}
      BY <2>7
    <3>4. PICK S, T, all, n :
            /\ S = Comparers(q, j) /\ T = S \ {c} /\ all = Cardinality(Calls)
            /\ IsFiniteSet(S) /\ n = Cardinality(S) /\ all \in Nat /\ n \in Nat
      <4>1. /\ IsFiniteSet(Comparers(q, j)) /\ Cardinality(Calls) \in Nat
            /\ Cardinality(Comparers(q, j)) \in Nat
        BY ComparersFinite
      <4> QED
        BY <4>1, Zenon
    <3>5. CASE q = p /\ j = k
      <4>1. c \in S
        BY <1>2, <3>4, <3>5 DEF Comparers
      <4>2. Cardinality(T) = n - 1
        BY <3>4, <4>1, FS_RemoveElement
      <4>3. codes'[q][j].attempts = codes[q][j].attempts + 1
        BY <2>2, <2>3, <3>5
      <4>4. codes[q][j].attempts + 1 + (n - 1) < MaxAttempts + all
        BY <3>1, <3>2, <3>4
      <4> QED
        BY <3>3, <3>4, <4>2, <4>3, <4>4
    <3>6. CASE ~(q = p /\ j = k)
      <4>1. codes'[q][j].attempts = codes[q][j].attempts
        BY <2>3, <3>6
      <4>2. PICK m \in Nat : m = Cardinality(T) /\ m <= n
        BY <3>4, FS_Subset, FS_CardinalityType
      <4>3. codes[q][j].attempts + m < MaxAttempts + all
        BY <3>1, <3>2, <3>4, <4>2
      <4> QED
        BY <3>3, <3>4, <4>1, <4>2, <4>3
    <3> QED
      BY <3>5, <3>6
  <2>9. Renewed'
    BY <1>1, <1>2 DEF Renewed, SessionsRenewed
  <2>10. Counted'
    <3>1. \A d \in Calls : At(d, "password")' =>
            At(d, "password") /\ call'[d].seller = call[d].seller
      BY <1>1, <2>1 DEF TypeOK, At
    <3> QED
      BY <1>1, <1>2, <3>1, CountedKept
  <2> QED
    BY <2>5, <2>6, <2>8, <2>9, <2>10 DEF AccountsInv
<1> QED
  BY <1>4, <1>5

-----------------------------------------------------------------------------
(* The seller.                                                             *)

\* The seller's row changes and a call goes on or ends.  No call reaches the
\* comparison.
LEMMA SellerStep ==
  ASSUME AccountsInv, NEW c \in Calls, NEW new \in CallRows \cup {None},
         call' = [call EXCEPT ![c] = new],
         new # None => new.step # "compare" /\ CallSound(c)',
         seller' \in SellerRows, seller'.password >= seller.password,
         alone' \in BOOLEAN, wrong' \in Nat, Counted',
         UNCHANGED <<codes, sessions, swept>>
  PROVE  AccountsInv'
<1>1. TypeOK /\ CallsSound /\ GuessesLeft /\ Renewed /\ Counted
  BY DEF AccountsInv
<1>2. Grown
  BY DEF Grown
<1>3. CallsSound' /\ call' \in [Calls -> CallRows \cup {None}]
  BY <1>1, <1>2, CallsKept
<1>4. TypeOK'
  BY <1>1, <1>3 DEF TypeOK
<1>5. GuessesLeft'
  <2>1. \A p \in Purposes : \A k : Comparers(p, k)' = Comparers(p, k) \ {c}
    BY <1>1, NoMoreCompare
  <2>2. GuessesStand
    BY <1>1, CodeTyped DEF GuessesStand
  <2> QED
    BY <1>1, <2>1, <2>2, GuessesKept
<1>6. Renewed'
  BY <1>1, RenewedKept
<1> QED
  BY <1>3, <1>4, <1>5, <1>6 DEF AccountsInv

\* A call that did not wait with a password goes where it does not either.
LEMMA OthersWait ==
  ASSUME TypeOK, NEW c \in Calls, NEW new,
         call' = [call EXCEPT ![c] = new],
         new # None => new.step # "password"
  PROVE  \A d \in Calls : At(d, "password")' =>
           d # c /\ At(d, "password") /\ call'[d] = call[d]
<1>1. call'[c] = new /\ \A d \in Calls : d # c => call'[d] = call[d]
  BY DEF TypeOK
<1> QED
  BY <1>1 DEF At

\* Before registration nobody waits with a password.
LEMMA NobodyWaits ==
  ASSUME AccountsInv, seller.password = 0
  PROVE  \A d \in Calls : ~At(d, "password")
BY DEF AccountsInv, CallsSound, CallSound, At

LEMMA CreateStep ==
  ASSUME AccountsInv, NEW c \in Calls, CreateSeller(c)
  PROVE  AccountsInv'
<1>1. TypeOK /\ Counted /\ seller \in SellerRows /\ call[c] # None /\ VerificationEnabled \in BOOLEAN
  BY AccountsAssumption DEF AccountsInv, TypeOK, CreateSeller, At
<1>2. UNCHANGED <<codes, sessions, swept, alone, wrong>>
  BY DEF CreateSeller
<1>3. CASE Registered
  BY <1>1, <1>2, <1>3, EndStep DEF CreateSeller
<1>4. CASE ~Registered
  <2>1. seller' = [password |-> 1, verified |-> ~VerificationEnabled,
                   failures |-> 0, lock |-> "none"]
        /\ (Ends(c) \/ Goes(c, "recent"))
    BY <1>4 DEF CreateSeller
  <2>2. /\ seller' \in SellerRows /\ seller'.password = 1 /\ seller'.failures = 0
        /\ seller'.lock = "none" /\ seller.password = 0
    BY <1>1, <1>4, <2>1 DEF SellerRows, Registered
  <2>3. "recent" \in Steps /\ "recent" \in Light
    BY DEF Steps, Light
  <2>4. PICK new \in CallRows \cup {None} :
          /\ call' = [call EXCEPT ![c] = new] /\ call'[c] = new
          /\ new # None => new.step = "recent"
    <3>1. CASE Ends(c)
      BY <1>1, <3>1 DEF Ends, TypeOK
    <3>2. CASE Goes(c, "recent")
      BY <1>1, <2>3, <3>2, Sent
    <3> QED
      BY <2>1, <3>1, <3>2
  <2>5. CallSound(c)'
    BY <2>3, <2>4, LightSound
  <2>6. \A d \in Calls : ~At(d, "password")'
    BY <1>1, <2>2, <2>4, NobodyWaits, OthersWait
  <2>7. wrong = 0 /\ 0 < MaxFailed
    BY <1>1, <2>2, AccountsAssumption DEF Counted
  <2>8. Counted'
    BY <1>2, <2>2, <2>6, <2>7 DEF Counted, FailuresCounted
  <2>9. seller'.password >= seller.password /\ alone' \in BOOLEAN /\ wrong' \in Nat
    BY <1>1, <1>2, <2>2 DEF TypeOK
  <2>10. new # None => new.step # "compare" /\ CallSound(c)'
    BY <2>4, <2>5
  <2>11. UNCHANGED <<codes, sessions, swept>>
    BY <1>2
  <2> QED
    BY <2>2, <2>4, <2>8, <2>9, <2>10, <2>11, SellerStep
<1> QED
  BY <1>3, <1>4

LEMMA ConfirmStep ==
  ASSUME AccountsInv, NEW c \in Calls, ConfirmEmail(c)
  PROVE  AccountsInv'
<1>1. TypeOK /\ Counted /\ seller \in SellerRows
  BY DEF AccountsInv, TypeOK
<1>2. /\ call' = [call EXCEPT ![c] = None]
      /\ UNCHANGED <<codes, sessions, swept, alone, wrong>>
  BY DEF ConfirmEmail, Ends
<1>3. /\ seller' \in SellerRows /\ seller'.password = seller.password
      /\ seller'.failures = seller.failures /\ seller'.lock = seller.lock
      /\ seller.password \in Nat
  BY <1>1 DEF ConfirmEmail, SellerRows
<1>4. \A d \in Calls : At(d, "password")' => At(d, "password") /\ call'[d] = call[d]
  BY <1>1, <1>2, OthersWait
<1>5. Counted'
  BY <1>1, <1>2, <1>3, <1>4 DEF Counted, FailuresCounted
<1>6. seller'.password >= seller.password /\ alone' \in BOOLEAN /\ wrong' \in Nat
  BY <1>1, <1>2, <1>3 DEF TypeOK
<1>7. PICK new \in CallRows \cup {None} :
        /\ call' = [call EXCEPT ![c] = new]
        /\ new # None => new.step # "compare" /\ CallSound(c)'
  BY <1>2
<1> QED
  BY <1>2, <1>3, <1>5, <1>6, <1>7, SellerStep

LEMMA SetPasswordStep ==
  ASSUME AccountsInv, NEW c \in Calls, SetPassword(c)
  PROVE  AccountsInv'
<1>1. TypeOK /\ Counted /\ seller \in SellerRows /\ call[c] # None
  BY DEF AccountsInv, TypeOK, SetPassword, At
<1>2. /\ alone' = (alone /\ ReadingLogins(c) = {}) /\ wrong' = 0
      /\ UNCHANGED <<codes, sessions, swept>>
  BY DEF SetPassword
<1>3. /\ seller' \in SellerRows /\ seller'.password = seller.password + 1
      /\ seller'.failures = 0 /\ seller'.lock = "none"
      /\ seller.password \in Nat
  <2>1. PICK n : n = seller.password + 1
    OBVIOUS
  <2>2. seller' = [seller EXCEPT !.password = n, !.failures = 0, !.lock = "none"]
    BY <2>1 DEF SetPassword
  <2>3. seller.password \in Nat
    BY <1>1 DEF SellerRows
  <2>4. n \in Nat
    BY <2>1, <2>3
  <2>5. /\ seller' \in SellerRows /\ seller'.password = n
        /\ seller'.failures = 0 /\ seller'.lock = "none"
    BY <1>1, <2>2, <2>4 DEF SellerRows
  <2> QED
    BY <2>1, <2>3, <2>5
<1>4. "sweep" \in Steps /\ "sweep" \in Light
  BY DEF Steps, Light
<1>5. PICK new \in CallRows :
        /\ call' = [call EXCEPT ![c] = new] /\ call'[c] = new /\ new.step = "sweep"
  BY <1>1, <1>4, Sent DEF SetPassword
<1>6. new # None => new.step # "compare" /\ CallSound(c)'
  BY <1>4, <1>5, LightSound
<1>7. \A d \in Calls : At(d, "password")' => d # c /\ At(d, "password")
  BY <1>1, <1>5, OthersWait
<1>8. alone' => \A d \in Calls : ~At(d, "password")'
  BY <1>2, <1>7 DEF ReadingLogins
<1>9. 0 < MaxFailed /\ seller'.password # 0
  BY <1>3, AccountsAssumption
<1>10. Counted'
  BY <1>2, <1>3, <1>8, <1>9 DEF Counted, FailuresCounted
<1>11. seller'.password >= seller.password /\ alone' \in BOOLEAN /\ wrong' \in Nat
  BY <1>1, <1>2, <1>3 DEF TypeOK
<1> QED
  BY <1>2, <1>3, <1>5, <1>6, <1>10, <1>11, SellerStep

LEMMA LoginStep ==
  ASSUME AccountsInv, NEW c \in Calls, Login(c)
  PROVE  AccountsInv'
<1>1. TypeOK /\ Counted /\ Renewed /\ seller \in SellerRows /\ wrong \in Nat /\ alone \in BOOLEAN
  BY DEF AccountsInv, TypeOK
<1>2. /\ alone' = (alone /\ ReadingLogins(c) = {}) /\ wrong' = IF alone' THEN wrong ELSE 0
      /\ UNCHANGED <<seller, codes, sessions, swept>>
      /\ seller.password # 0
  BY DEF Login, Registered
<1>3. PICK new \in CallRows :
        /\ call' = [call EXCEPT ![c] = new] /\ call'[c] = new
        /\ new.step = "password" /\ new.seller = seller
  <2>1. "password" \in Steps /\ "EMAIL_VERIFICATION" \in Purposes
    BY DEF Steps, Purposes
  <2> QED
    BY <1>1, <2>1, Begun DEF Login
<1>4. seller.password \in Nat /\ swept \in Nat /\ swept <= seller.password /\ seller # None
  BY <1>1, Rows DEF Renewed, SellerRows, TypeOK
<1>5. new # None => new.step # "compare" /\ CallSound(c)'
  BY <1>2, <1>3, <1>4 DEF CallSound
<1>6. \A d \in Calls : d # c => call'[d] = call[d]
  BY <1>1, <1>3 DEF TypeOK
<1>7. alone' => \A d \in Calls : At(d, "password")' => d = c
  BY <1>2, <1>6 DEF ReadingLogins, At
<1>8. FailuresCounted'
  BY <1>1, <1>2 DEF Counted, FailuresCounted
<1>9. Counted'
  BY <1>2, <1>3, <1>7, <1>8 DEF Counted
<1>10. seller' \in SellerRows /\ seller'.password >= seller.password
       /\ alone' \in BOOLEAN /\ wrong' \in Nat
  BY <1>1, <1>2, <1>4
<1> QED
  BY <1>2, <1>3, <1>5, <1>9, <1>10, SellerStep

\* What a login between its read and its write has read.
LEMMA LoginRead ==
  ASSUME AccountsInv, NEW c \in Calls, At(c, "password")
  PROVE  /\ call[c] \in CallRows /\ call[c] # None
         /\ call[c].seller \in SellerRows /\ call[c].seller.failures \in Nat
         /\ call[c].seller.password \in 1 .. seller.password
         /\ call[c].seller.password >= swept \/ call[c].overlapped
         /\ seller.password \in Nat /\ seller.password # 0
<1>1. call[c] \in CallRows /\ call[c] # None
  BY DEF AccountsInv, TypeOK, At
<1>2. /\ call[c].seller # None
      /\ call[c].seller.password \in 1 .. seller.password
      /\ call[c].seller.password >= swept \/ call[c].overlapped
  BY <1>1 DEF AccountsInv, CallsSound, CallSound, At
<1>3. call[c].seller \in SellerRows
  BY <1>1, <1>2 DEF CallRows
<1>4. seller.password \in Nat /\ call[c].seller.failures \in Nat
  BY <1>3 DEF AccountsInv, TypeOK, SellerRows
<1>5. seller.password # 0
  BY <1>2, <1>4
<1> QED
  BY <1>1, <1>2, <1>3, <1>4, <1>5

LEMMA WrongStep ==
  ASSUME AccountsInv, NEW c \in Calls, WrongPassword(c)
  PROVE  AccountsInv'
<1>1. TypeOK /\ Counted /\ seller \in SellerRows /\ wrong \in Nat /\ alone \in BOOLEAN
      /\ At(c, "password")
  BY DEF AccountsInv, TypeOK, WrongPassword
<1>2. PICK n : n = call[c].seller.failures + 1
  OBVIOUS
<1>3. call[c].seller.failures \in Nat /\ n \in Nat /\ seller.password \in Nat /\ seller.password # 0
  BY <1>1, <1>2, LoginRead
<1>4. /\ call' = [call EXCEPT ![c] = None]
      /\ seller' = [seller EXCEPT !.failures = n, !.lock = LockAfter(n)]
      /\ wrong' = IF alone THEN wrong + 1 ELSE 0
      /\ UNCHANGED <<codes, sessions, swept, alone>>
  BY <1>2 DEF WrongPassword, Ends
<1>5. LockAfter(n) \in {"none", "future", "past"} /\ (LockAfter(n) = "none" <=> n < MaxFailed)
  BY <1>3, AccountsAssumption DEF LockAfter
<1>6. /\ seller' \in SellerRows /\ seller'.password = seller.password
      /\ seller'.failures = n /\ seller'.lock = LockAfter(n)
  BY <1>1, <1>3, <1>4, <1>5 DEF SellerRows
<1>7. \A d \in Calls : At(d, "password")' => d # c /\ At(d, "password")
  BY <1>1, <1>4, OthersWait
<1>8. alone => n = wrong + 1 /\ \A d \in Calls : ~At(d, "password")'
  <2>1. alone => /\ call[c].seller.failures = seller.failures
                 /\ \A d \in Calls : At(d, "password") => d = c
    BY <1>1 DEF Counted
  <2>2. alone => seller.failures = wrong
    BY <1>1 DEF Counted, FailuresCounted
  <2> QED
    BY <1>2, <1>7, <2>1, <2>2
<1>9. FailuresCounted'
  BY <1>4, <1>5, <1>6, <1>8 DEF FailuresCounted
<1>10. Counted'
  BY <1>3, <1>4, <1>6, <1>8, <1>9 DEF Counted
<1>11. seller'.password >= seller.password /\ alone' \in BOOLEAN /\ wrong' \in Nat
  BY <1>1, <1>3, <1>4, <1>6
<1>12. PICK new \in CallRows \cup {None} :
         /\ call' = [call EXCEPT ![c] = new]
         /\ new # None => new.step # "compare" /\ CallSound(c)'
  BY <1>4
<1> QED
  BY <1>4, <1>6, <1>10, <1>11, <1>12, SellerStep

LEMMA RightStep ==
  ASSUME AccountsInv, NEW c \in Calls, RightPassword(c)
  PROVE  AccountsInv'
<1>1. TypeOK /\ Counted /\ seller \in SellerRows /\ alone \in BOOLEAN
      /\ At(c, "password")
  BY DEF AccountsInv, TypeOK, RightPassword
<1>2. /\ call[c] # None /\ call[c].seller \in SellerRows
      /\ call[c].seller.password \in 1 .. seller.password
      /\ call[c].seller.password >= swept \/ call[c].overlapped
      /\ seller.password \in Nat /\ seller.password # 0
  BY <1>1, LoginRead
<1>3. /\ Goes(c, "open") /\ wrong' = 0
      /\ UNCHANGED <<codes, sessions, swept, alone>>
  BY DEF RightPassword
<1>4. /\ seller' \in SellerRows /\ seller'.password = seller.password
      /\ seller'.failures = 0 /\ seller'.lock = "none"
  BY <1>1 DEF RightPassword, SellerRows
<1>5. PICK new \in CallRows :
        /\ call' = [call EXCEPT ![c] = new] /\ call'[c] = new /\ new.step = "open"
        /\ new.seller = call[c].seller /\ new.overlapped = call[c].overlapped
  <2>1. "open" \in Steps
    BY DEF Steps
  <2> QED
    BY <1>1, <1>2, <1>3, <2>1, Sent
<1>6. new # None => new.step # "compare" /\ CallSound(c)'
  <2>1. new.seller # None
    BY <1>2, <1>5, Rows
  <2> QED
    BY <1>2, <1>3, <1>4, <1>5, <2>1 DEF CallSound
<1>7. \A d \in Calls : At(d, "password")' => d # c /\ At(d, "password")
  BY <1>1, <1>5, OthersWait
<1>8. alone => \A d \in Calls : ~At(d, "password")'
  BY <1>1, <1>7 DEF Counted
<1>9. 0 < MaxFailed
  BY AccountsAssumption
<1>10. Counted'
  BY <1>2, <1>3, <1>4, <1>8, <1>9 DEF Counted, FailuresCounted
<1>11. seller'.password >= seller.password /\ alone' \in BOOLEAN /\ wrong' \in Nat
  BY <1>1, <1>2, <1>3, <1>4
<1> QED
  BY <1>3, <1>4, <1>5, <1>6, <1>10, <1>11, SellerStep

LEMMA LapseStep == ASSUME AccountsInv, LockLapses PROVE AccountsInv'
<1>1. TypeOK /\ CallsSound /\ GuessesLeft /\ Renewed /\ Counted /\ seller \in SellerRows
  BY DEF AccountsInv, TypeOK
<1>2. UNCHANGED <<codes, sessions, call, swept, alone, wrong>> /\ seller.lock = "future"
  BY DEF LockLapses
<1>3. /\ seller' \in SellerRows /\ seller'.password = seller.password
      /\ seller'.failures = seller.failures /\ seller'.lock = "past"
      /\ seller.password \in Nat
  BY <1>1 DEF LockLapses, SellerRows
<1>4. Grown
  BY <1>2, <1>3 DEF Grown
<1>5. CallsSound' /\ TypeOK'
  BY <1>1, <1>2, <1>3, <1>4, CallsStay DEF TypeOK
<1>6. GuessesLeft'
  BY <1>1, <1>2 DEF GuessesLeft, Comparers, At
<1>7. Renewed'
  BY <1>1, <1>2, <1>3 DEF Renewed, SessionsRenewed
<1>8. FailuresCounted'
  BY <1>1, <1>2, <1>3 DEF Counted, FailuresCounted
<1>9. Counted'
  BY <1>1, <1>2, <1>3, <1>8 DEF Counted, At
<1> QED
  BY <1>5, <1>6, <1>7, <1>9 DEF AccountsInv

-----------------------------------------------------------------------------
(* Sessions.                                                               *)

\* Session rows change and at most one call ends.
LEMMA SessionsStep ==
  ASSUME AccountsInv,
         \/ UNCHANGED call
         \/ \E c \in Calls : call' = [call EXCEPT ![c] = None],
         sessions' \in Seq(SessionRows), DOMAIN sessions \subseteq DOMAIN sessions',
         Renewed', UNCHANGED <<seller, codes, swept, alone, wrong>>
  PROVE  AccountsInv'
<1>1. TypeOK /\ CallsSound /\ GuessesLeft /\ Renewed /\ Counted
  BY DEF AccountsInv
<1>2. seller' \in SellerRows /\ seller.password \in Nat
  BY <1>1 DEF TypeOK, SellerRows
<1>3. Grown
  BY <1>2 DEF Grown
<1>4. GuessesStand
  BY <1>1, CodeTyped DEF GuessesStand
<1>5. CASE UNCHANGED call
  <2>1. CallsSound' /\ call' \in [Calls -> CallRows \cup {None}]
    BY <1>1, <1>2, <1>3, <1>5, CallsStay
  <2>2. TypeOK'
    BY <1>1, <2>1 DEF TypeOK
  <2>3. GuessesLeft'
    BY <1>1, <1>5 DEF GuessesLeft, Comparers, At
  <2>4. Counted'
    BY <1>1, <1>5, CountedKept DEF At
  <2> QED
    BY <2>1, <2>2, <2>3, <2>4 DEF AccountsInv
<1>6. ASSUME NEW c \in Calls, call' = [call EXCEPT ![c] = None]
      PROVE  AccountsInv'
  <2>1. PICK new \in CallRows \cup {None} : new = None
    OBVIOUS
  <2>2. call' = [call EXCEPT ![c] = new]
    BY <1>6, <2>1
  <2>3. CallsSound' /\ call' \in [Calls -> CallRows \cup {None}]
    BY <1>1, <1>2, <1>3, <2>1, <2>2, CallsKept
  <2>4. TypeOK'
    BY <1>1, <2>3 DEF TypeOK
  <2>5. \A p \in Purposes : \A k : Comparers(p, k)' = Comparers(p, k) \ {c}
    BY <1>1, <2>1, <2>2, NoMoreCompare
  <2>6. GuessesLeft'
    BY <1>1, <1>4, <2>5, GuessesKept
  <2>7. \A d \in Calls : At(d, "password")' =>
          At(d, "password") /\ call'[d].seller = call[d].seller
    BY <1>1, <1>6, OthersWait
  <2>8. Counted'
    BY <1>1, <2>7, CountedKept
  <2> QED
    BY <2>3, <2>4, <2>6, <2>8 DEF AccountsInv
<1> QED
  BY <1>5, <1>6

\* Some sessions are touched, run out or deleted: none comes back.
LEMMA RowsStep ==
  ASSUME AccountsInv,
         \/ UNCHANGED call
         \/ \E c \in Calls : call' = [call EXCEPT ![c] = None],
         sessions' \in Seq(SessionRows), DOMAIN sessions' = DOMAIN sessions,
         \A s \in DOMAIN sessions :
           /\ sessions'[s].status # "deleted" => sessions[s].status # "deleted"
           /\ sessions'[s].password = sessions[s].password
           /\ sessions'[s].overlapped = sessions[s].overlapped,
         UNCHANGED <<seller, codes, swept, alone, wrong>>
  PROVE  AccountsInv'
<1>1. TypeOK /\ Renewed
  BY DEF AccountsInv
<1>2. seller' \in SellerRows /\ seller'.password >= seller.password
  BY <1>1 DEF TypeOK, SellerRows
<1>3. Renewed'
  BY <1>1, <1>2, RenewedKept
<1> QED
  BY <1>3, SessionsStep

\* One session's status changes.
LEMMA StatusChange ==
  ASSUME TypeOK, NEW s \in DOMAIN sessions,
         NEW status \in {"live", "expired", "deleted"},
         sessions' = [sessions EXCEPT ![s].status = status],
         status # "deleted" => sessions[s].status # "deleted"
  PROVE  /\ sessions' \in Seq(SessionRows) /\ DOMAIN sessions' = DOMAIN sessions
         /\ \A t \in DOMAIN sessions :
              /\ sessions'[t].status # "deleted" => sessions[t].status # "deleted"
              /\ sessions'[t].password = sessions[t].password
              /\ sessions'[t].overlapped = sessions[t].overlapped
<1>1. sessions \in Seq(SessionRows) /\ sessions[s] \in SessionRows
  BY ElementOfSeq, LenProperties DEF TypeOK
<1> DEFINE row == [sessions[s] EXCEPT !.status = status]
<1>2. /\ row \in SessionRows /\ row.status = status
      /\ row.password = sessions[s].password /\ row.overlapped = sessions[s].overlapped
  BY <1>1 DEF SessionRows
<1>3. sessions' = [sessions EXCEPT ![s] = row]
  OBVIOUS
<1> HIDE DEF row
<1>4. sessions' \in Seq(SessionRows) /\ DOMAIN sessions' = DOMAIN sessions
  BY <1>1, <1>2, <1>3, ExceptSeq, LenProperties
<1>5. sessions'[s] = row /\ \A t \in DOMAIN sessions : t # s => sessions'[t] = sessions[t]
  BY <1>3
<1> QED
  BY <1>2, <1>4, <1>5

LEMMA TouchStep == ASSUME AccountsInv, NEW c \in Calls, Touch(c) PROVE AccountsInv'
<1>1. TypeOK /\ sessions \in Seq(SessionRows)
  BY DEF AccountsInv, TypeOK
<1>2. PICK s \in DOMAIN sessions : s = call[c].row
  BY DEF AccountsInv, CallsSound, CallSound, Touch, At
<1>3. /\ sessions' = [sessions EXCEPT ![s] = Touched(sessions[s])]
      /\ call' = [call EXCEPT ![c] = None]
      /\ UNCHANGED <<seller, codes, swept, alone, wrong>>
  BY <1>2 DEF Touch, Ends
<1>4. CASE sessions[s].status = "deleted"
  <2>1. sessions' = sessions
    BY <1>1, <1>3, <1>4 DEF Touched
  <2>2. sessions' \in Seq(SessionRows) /\ DOMAIN sessions' = DOMAIN sessions
    BY <1>1, <2>1
  <2>3. \A t \in DOMAIN sessions : sessions'[t] = sessions[t]
    BY <2>1
  <2> QED
    BY <1>3, <2>2, <2>3, RowsStep
<1>5. CASE sessions[s].status # "deleted"
  <2>1. sessions' = [sessions EXCEPT ![s].status = "live"]
    BY <1>3, <1>5 DEF Touched
  <2>2. /\ sessions' \in Seq(SessionRows) /\ DOMAIN sessions' = DOMAIN sessions
        /\ \A t \in DOMAIN sessions :
             /\ sessions'[t].status # "deleted" => sessions[t].status # "deleted"
             /\ sessions'[t].password = sessions[t].password
             /\ sessions'[t].overlapped = sessions[t].overlapped
    BY <1>1, <1>5, <2>1, StatusChange
  <2> QED
    BY <1>3, <2>2, RowsStep
<1> QED
  BY <1>4, <1>5

\* Logout and the deletion of a session that ran out.
LEMMA DeletedStep ==
  ASSUME AccountsInv, NEW s \in DOMAIN sessions,
         sessions' = [sessions EXCEPT ![s].status = "deleted"],
         \/ UNCHANGED call
         \/ \E c \in Calls : call' = [call EXCEPT ![c] = None],
         UNCHANGED <<seller, codes, swept, alone, wrong>>
  PROVE  AccountsInv'
<1>1. TypeOK
  BY DEF AccountsInv
<1>2. /\ sessions' \in Seq(SessionRows) /\ DOMAIN sessions' = DOMAIN sessions
      /\ \A t \in DOMAIN sessions :
           /\ sessions'[t].status # "deleted" => sessions[t].status # "deleted"
           /\ sessions'[t].password = sessions[t].password
           /\ sessions'[t].overlapped = sessions[t].overlapped
  BY <1>1, StatusChange
<1> QED
  BY <1>2, RowsStep

LEMMA DropStep == ASSUME AccountsInv, NEW c \in Calls, DropExpired(c) PROVE AccountsInv'
<1>1. PICK s \in DOMAIN sessions : s = call[c].row
  BY DEF AccountsInv, CallsSound, CallSound, DropExpired, At
<1>2. /\ sessions' = [sessions EXCEPT ![s].status = "deleted"]
      /\ call' = [call EXCEPT ![c] = None]
      /\ UNCHANGED <<seller, codes, swept, alone, wrong>>
  BY <1>1 DEF DropExpired, Ends
<1> QED
  BY <1>2, DeletedStep

LEMMA LogoutStep ==
  ASSUME AccountsInv, NEW s \in DOMAIN sessions, Logout(s)
  PROVE  AccountsInv'
BY DeletedStep DEF Logout

LEMMA ExpireStep ==
  ASSUME AccountsInv, NEW s \in DOMAIN sessions, SessionExpires(s)
  PROVE  AccountsInv'
<1>1. TypeOK
  BY DEF AccountsInv
<1>2. /\ sessions[s].status = "live"
      /\ sessions' = [sessions EXCEPT ![s].status = "expired"]
      /\ UNCHANGED <<seller, codes, call, swept, alone, wrong>>
  BY DEF SessionExpires
<1>3. /\ sessions' \in Seq(SessionRows) /\ DOMAIN sessions' = DOMAIN sessions
      /\ \A t \in DOMAIN sessions :
           /\ sessions'[t].status # "deleted" => sessions[t].status # "deleted"
           /\ sessions'[t].password = sessions[t].password
           /\ sessions'[t].overlapped = sessions[t].overlapped
  BY <1>1, <1>2, StatusChange
<1> QED
  BY <1>2, <1>3, RowsStep

LEMMA OpenStep == ASSUME AccountsInv, NEW c \in Calls, OpenSession(c) PROVE AccountsInv'
<1>1. TypeOK /\ Renewed /\ sessions \in Seq(SessionRows)
  BY DEF AccountsInv, TypeOK
<1>2. call[c] \in CallRows /\ call[c].step = "open"
  BY DEF AccountsInv, TypeOK, OpenSession, At
<1>3. /\ call[c].seller # None
      /\ call[c].seller.password >= swept \/ call[c].overlapped
  BY <1>2, Rows DEF AccountsInv, CallsSound, CallSound, OpenSession, At
<1>4. call[c].seller \in SellerRows
  BY <1>2, <1>3 DEF CallRows
<1> DEFINE row == [status |-> "live", password |-> call[c].seller.password,
                   overlapped |-> call[c].overlapped]
<1>5. /\ row \in SessionRows
      /\ row.password >= swept \/ row.overlapped
  BY <1>2, <1>3, <1>4 DEF SessionRows, SellerRows, CallRows
<1>6. /\ sessions' = Append(sessions, row) /\ call' = [call EXCEPT ![c] = None]
      /\ UNCHANGED <<seller, codes, swept, alone, wrong>>
  BY DEF OpenSession, Ends
<1> HIDE DEF row
<1>7. /\ sessions' \in Seq(SessionRows)
      /\ Len(sessions') = Len(sessions) + 1 /\ sessions'[Len(sessions) + 1] = row
      /\ \A s \in 1 .. Len(sessions) : sessions'[s] = sessions[s]
  BY <1>1, <1>5, <1>6, AppendProperties
<1>8. /\ Len(sessions) \in Nat /\ DOMAIN sessions = 1 .. Len(sessions)
      /\ DOMAIN sessions' = 1 .. Len(sessions')
  BY <1>1, <1>7, LenProperties
<1>9. /\ DOMAIN sessions \subseteq DOMAIN sessions'
      /\ \A s \in DOMAIN sessions' :
           (s \in DOMAIN sessions /\ sessions'[s] = sessions[s]) \/ sessions'[s] = row
  BY <1>7, <1>8
<1>10. Renewed'
  BY <1>1, <1>5, <1>6, <1>9 DEF Renewed, SessionsRenewed
<1> QED
  BY <1>6, <1>7, <1>9, <1>10, SessionsStep

LEMMA SweepStep == ASSUME AccountsInv, NEW c \in Calls, Sweep(c) PROVE AccountsInv'
<1>1. TypeOK /\ CallsSound /\ GuessesLeft /\ Renewed /\ Counted
  BY DEF AccountsInv
<1>2. /\ UNCHANGED <<seller, codes, alone, wrong>> /\ swept' = seller.password
      /\ sessions' = AllDeleted(sessions) /\ At(c, "sweep")
  BY DEF Sweep
<1>3. call'[c] = None /\ call' = [d \in Calls |-> call'[d]]
  BY DEF Sweep
<1>4. \A d \in Calls : d # c /\ (At(d, "password") \/ At(d, "open"))
        => call'[d] = [call[d] EXCEPT !.overlapped = TRUE]
  BY DEF Sweep
<1>5. \A d \in Calls : d # c /\ ~(At(d, "password") \/ At(d, "open"))
        => call'[d] = call[d]
  BY DEF Sweep
<1>6. seller.password \in Nat /\ sessions \in Seq(SessionRows)
  BY <1>1 DEF TypeOK, SellerRows
<1>7. \A d \in Calls : d # c /\ call[d] # None =>
        /\ call'[d] \in CallRows /\ call'[d] # None
        /\ call'[d].step = call[d].step /\ call'[d].purpose = call[d].purpose
        /\ call'[d].row = call[d].row /\ call'[d].seller = call[d].seller
        /\ At(d, "password") \/ At(d, "open") => call'[d].overlapped
  <2> SUFFICES ASSUME NEW d \in Calls, d # c, call[d] # None
               PROVE  /\ call'[d] \in CallRows
                      /\ call'[d].step = call[d].step /\ call'[d].purpose = call[d].purpose
                      /\ call'[d].row = call[d].row /\ call'[d].seller = call[d].seller
                      /\ At(d, "password") \/ At(d, "open") => call'[d].overlapped
    BY Rows
  <2>1. call[d] \in CallRows
    BY <1>1 DEF TypeOK
  <2> QED
    BY <1>4, <1>5, <2>1 DEF CallRows
<1>8. \A d \in Calls : d # c /\ call[d] = None => call'[d] = None
  BY <1>5 DEF At
<1>9. call' \in [Calls -> CallRows \cup {None}]
  BY <1>3, <1>7, <1>8
<1>10. /\ sessions' \in Seq(SessionRows) /\ DOMAIN sessions' = DOMAIN sessions
       /\ \A s \in DOMAIN sessions : sessions'[s].status = "deleted"
  <2>1. \A s \in DOMAIN sessions : sessions[s] \in SessionRows
    BY <1>6, ElementOfSeq, LenProperties
  <2>2. \A s \in DOMAIN sessions :
          /\ [sessions[s] EXCEPT !.status = "deleted"] \in SessionRows
          /\ [sessions[s] EXCEPT !.status = "deleted"].status = "deleted"
    BY <2>1 DEF SessionRows
  <2>3. /\ DOMAIN sessions' = DOMAIN sessions
        /\ \A s \in DOMAIN sessions :
             sessions'[s] \in SessionRows /\ sessions'[s].status = "deleted"
    BY <1>2, <2>2 DEF AllDeleted
  <2>4. sessions' = [s \in 1 .. Len(sessions) |-> sessions'[s]] /\ Len(sessions) \in Nat
    BY <1>2, <1>6, LenProperties DEF AllDeleted
  <2>5. sessions' \in Seq(SessionRows)
    BY <1>6, <2>3, <2>4, SeqDef, LenProperties
  <2> QED
    BY <2>3, <2>5
<1>11. TypeOK'
  BY <1>1, <1>2, <1>6, <1>9, <1>10 DEF TypeOK
<1>12. CallsSound'
  <2> SUFFICES ASSUME NEW d \in Calls, d # c, call[d] # None PROVE CallSound(d)'
    BY <1>3, <1>8 DEF CallsSound, CallSound
  <2>1. CallSound(d)
    BY <1>1 DEF CallsSound
  <2> QED
    BY <1>2, <1>7, <1>10, <2>1 DEF CallSound, At
<1>13. GuessesLeft'
  <2>1. \A p \in Purposes : \A k : Comparers(p, k)' = Comparers(p, k) \ {c}
    <3>1. \A d \in Calls : At(d, "compare")' <=> d # c /\ At(d, "compare")
      BY <1>3, <1>7, <1>8 DEF At
    <3> SUFFICES ASSUME NEW p \in Purposes, NEW k
                 PROVE  Comparers(p, k)' = Comparers(p, k) \ {c}
      OBVIOUS
    <3>2. \A d \in Calls : d \in Comparers(p, k)' <=> d \in Comparers(p, k) \ {c}
      BY <1>7, <3>1 DEF Comparers, At
    <3>3. Comparers(p, k)' \subseteq Calls /\ Comparers(p, k) \subseteq Calls
      BY DEF Comparers
    <3> QED
      BY <3>2, <3>3
  <2>2. GuessesStand
    BY <1>1, <1>2, CodeTyped DEF GuessesStand
  <2> QED
    BY <1>1, <2>1, <2>2, GuessesKept
<1>14. Renewed'
  BY <1>2, <1>6, <1>10 DEF Renewed, SessionsRenewed
<1>15. Counted'
  <2>1. \A d \in Calls : At(d, "password")' =>
          At(d, "password") /\ call'[d].seller = call[d].seller
    BY <1>3, <1>7, <1>8 DEF At
  <2> QED
    BY <1>1, <1>2, <2>1, CountedKept
<1> QED
  BY <1>11, <1>12, <1>13, <1>14, <1>15 DEF AccountsInv

-----------------------------------------------------------------------------
(* The theorems.                                                           *)

\* Initially nobody has registered.
THEOREM AccountsInit == Init => AccountsInv
<1> SUFFICES ASSUME Init PROVE AccountsInv
  OBVIOUS
<1>1. TypeOK
  <2>1. <<>> \in Seq(CodeRows) /\ <<>> \in Seq(SessionRows)
    OBVIOUS
  <2>2. seller \in SellerRows
    BY DEF Init, SellerRows
  <2> QED
    BY <2>1, <2>2 DEF Init, TypeOK
<1>2. /\ call = [c \in Calls |-> None] /\ sessions = <<>>
      /\ seller.password = 0 /\ seller.failures = 0 /\ seller.lock = "none"
      /\ swept = 0 /\ wrong = 0
  BY DEF Init
<1>3. CallsSound
  BY <1>2 DEF CallsSound, CallSound
<1>4. GuessesLeft
  <2>1. \A p \in Purposes : DOMAIN codes[p] = {}
    BY DEF Init
  <2> QED
    BY <2>1 DEF GuessesLeft
<1>5. Renewed
  BY <1>2 DEF Renewed, SessionsRenewed
<1>6. Counted
  BY <1>2, AccountsAssumption DEF Counted, FailuresCounted, At
<1> QED
  BY <1>1, <1>3, <1>4, <1>5, <1>6 DEF AccountsInv

\* Every statement of every call, and time, keeps the invariant.
THEOREM AccountsStep == AccountsInv /\ [Next]_vars => AccountsInv'
<1> SUFFICES ASSUME AccountsInv, [Next]_vars PROVE AccountsInv'
  OBVIOUS
<1>1. ASSUME NEW c \in Calls, CodeStep(c) PROVE AccountsInv'
  <2>1. CASE \/ Register(c) \/ ResendCode(c) \/ ForgotPassword(c) \/ ReadRecent(c)
             \/ \E p \in Purposes : \E k \in {0} \cup DOMAIN codes[p] : TypeCode(c, p, k)
    BY <2>1, CallOnlySteps
  <2>2. CASE CreateSeller(c)
    BY <2>2, CreateStep
  <2>3. CASE StoreCode(c)
    BY <2>3, StoreStep
  <2>4. CASE MailCode(c)
    BY <2>4, MailStep
  <2>5. CASE FindCode(c)
    BY <2>5, FindStep
  <2>6. CASE CompareCode(c)
    BY <2>6, CompareStep
  <2>7. CASE ConfirmEmail(c)
    BY <2>7, ConfirmStep
  <2>8. CASE SetPassword(c)
    BY <2>8, SetPasswordStep
  <2>9. CASE Sweep(c)
    BY <2>9, SweepStep
  <2> QED
    BY <1>1, <2>1, <2>2, <2>3, <2>4, <2>5, <2>6, <2>7, <2>8, <2>9 DEF CodeStep
<1>2. ASSUME NEW c \in Calls, SessionStep(c) PROVE AccountsInv'
  <2>1. CASE Login(c)
    BY <2>1, LoginStep
  <2>2. CASE WrongPassword(c)
    BY <2>2, WrongStep
  <2>3. CASE Unconfirmed(c)
    BY <2>3, CallOnlySteps
  <2>4. CASE RightPassword(c)
    BY <2>4, RightStep
  <2>5. CASE OpenSession(c)
    BY <2>5, OpenStep
  <2>6. CASE Touch(c)
    BY <2>6, TouchStep
  <2>7. CASE DropExpired(c)
    BY <2>7, DropStep
  <2>8. CASE \E s \in DOMAIN sessions : Validate(c, s)
    BY <2>8, ValidateStep
  <2> QED
    BY <1>2, <2>1, <2>2, <2>3, <2>4, <2>5, <2>6, <2>7, <2>8 DEF SessionStep
<1>3. ASSUME NEW c \in Calls, CallFails(c) PROVE AccountsInv'
  BY <1>3, CallOnlySteps
<1>4. CASE \E s \in DOMAIN sessions : Logout(s)
  BY <1>4, LogoutStep
<1>5. CASE TimePasses
  BY <1>5, AgeStep, LapseStep, ExpireStep DEF TimePasses
<1>6. CASE UNCHANGED vars
  <2>1. UNCHANGED call /\ UNCHANGED <<seller, codes, swept, alone, wrong>>
        /\ UNCHANGED sessions
    BY <1>6 DEF vars
  <2>2. sessions \in Seq(SessionRows)
    BY DEF AccountsInv, TypeOK
  <2>3. sessions' \in Seq(SessionRows) /\ DOMAIN sessions' = DOMAIN sessions
        /\ \A s \in DOMAIN sessions : sessions'[s] = sessions[s]
    BY <2>1, <2>2
  <2> QED
    BY <2>1, <2>3, RowsStep
<1> QED
  BY <1>1, <1>2, <1>3, <1>4, <1>5, <1>6 DEF Next

\* The invariant holds of an account whatever calls overlap.
THEOREM AccountsInvariant == Spec => []AccountsInv
<1>1. Init => AccountsInv
  BY AccountsInit
<1>2. AccountsInv /\ [Next]_vars => AccountsInv'
  BY AccountsStep
<1>. QED
  BY <1>1, <1>2, PTL DEF Spec

\* The rows of an account keep their types.
THEOREM AccountsTypeCorrect == Spec => []TypeOK
<1>1. AccountsInv => TypeOK
  BY DEF AccountsInv
<1>. QED
  BY <1>1, AccountsInvariant, PTL

\* A mailed code is compared with at most MaxAttempts wrong guesses and those
\* that had all read it before the last one counted, for any number of
\* overlapping calls (VerificationCodeService.verify).
THEOREM AccountGuessesAreBounded == Spec => []GuessesBounded
<1>1. AccountsInv => GuessesBounded
  <2> SUFFICES ASSUME AccountsInv, NEW p \in Purposes, NEW k \in DOMAIN codes[p]
               PROVE  codes[p][k].attempts < MaxAttempts + Cardinality(Calls)
    BY DEF GuessesBounded
  <2>1. codes[p][k].attempts \in Nat /\ MaxAttempts \in Nat
    BY CodeTyped, AccountsAssumption DEF AccountsInv
  <2>2. codes[p][k].attempts + Cardinality(Comparers(p, k))
          < MaxAttempts + Cardinality(Calls)
    BY DEF AccountsInv, GuessesLeft
  <2>3. Cardinality(Comparers(p, k)) \in Nat /\ Cardinality(Calls) \in Nat
    BY ComparersFinite
  <2> QED
    BY <2>1, <2>2, <2>3
<1>. QED
  BY <1>1, AccountsInvariant, PTL

\* No session outlives a change of password, but one whose login was already
\* under way, whatever touches, logouts and logins meet the change
\* (resetPassword, deleteAllForSeller).
THEOREM SessionsAreRenewed == Spec => []SessionsRenewed
<1>1. AccountsInv => SessionsRenewed
  BY DEF AccountsInv, Renewed
<1>. QED
  BY <1>1, AccountsInvariant, PTL

\* Where no other write falls between a login's read and its write, failures
\* are counted and the account is locked at MaxFailed (login,
\* registerFailedAttempt).
THEOREM FailuresAreCounted == Spec => []FailuresCounted
<1>1. AccountsInv => FailuresCounted
  BY DEF AccountsInv, Counted
<1>. QED
  BY <1>1, AccountsInvariant, PTL

-----------------------------------------------------------------------------
(* The studio: what its handlers have done.                                *)

Outcomes == BlenderOutcomes \cup GeoCalibOutcomes \cup GeneratorOutcomes \cup {"unread"}
PresetNames == {Presets[i] : i \in DOMAIN Presets}
ViewScenes == {ViewScene(preset) : preset \in PresetNames}

\* The first n views were asked for, if there was anybody to ask, and those
\* drawn are in the contents.
ViewsAsked(n) ==
  /\ scenes \in Seq(ViewScenes)
  /\ Len(scenes) = IF services.blender THEN n ELSE 0
  /\ \A i \in 1..Len(scenes) : scenes[i] = ViewScene(Presets[i])
  /\ \A i \in 1..n : heard[i] \in BlenderOutcomes
  /\ contents \in Seq(PresetNames)
  /\ Len(contents) = Cardinality(DrawnViews(n))
  /\ Shown = PresetsAt(DrawnViews(n))

\* What a final rendering knows once it is past its checks.
FinaleChecked ==
  /\ request.route = "catalog/render-finale"
  /\ ValidFinale(request.form) /\ Priced("arquati", request.form)

\* A handler that calls its service has one, for a request in order.
Supported ==
  /\ InOrder(request)
  /\ ServiceOf(request.route) # None /\ services[ServiceOf(request.route)]

\* What a handler that has not answered yet has done, by what it waits for.
Underway ==
  \/ /\ step = request.route /\ (ServiceOf(request.route) # None => InOrder(request))
     /\ heard = <<>> /\ scenes = <<>> /\ contents = <<>>
  \/ /\ Supported /\ heard = <<>>
     /\ \/ request.route = "catalog/render" /\ step \in {"assets", "generate"}
        \/ request.route = "catalog/render-mask" /\ step = "mask"
        \/ request.route = "catalog/render3d" /\ step = "blender"
        \/ request.route = "catalog/perspective" /\ step = "calibrate"
        \/ request.route = "catalog/perspective/auto" /\ step = "detect"
  \/ /\ Supported /\ FinaleChecked /\ step = "views"
     /\ \E n \in 0..2 : Len(heard) = n /\ ViewsAsked(n)
  \/ /\ Supported /\ FinaleChecked /\ step = "generate" /\ ViewsAsked(3)
     /\ Len(heard) = 3 \/ (Len(heard) = 4 /\ heard[4] = "no_image")

StudioInv ==
  /\ heard \in Seq(Outcomes)
  /\ request = None => /\ step = None /\ answer = None
                       /\ heard = <<>> /\ scenes = <<>> /\ contents = <<>>
  /\ request # None => request \in Requests
  /\ request # None /\ answer = None => Underway
  /\ FailuresNamed
  /\ FinaleAsAsked

-----------------------------------------------------------------------------
(* Errors and answers.                                                     *)

LEMMA DomainTyped ==
  ASSUME NEW code \in DomainCodes, NEW status \in Nat
  PROVE  /\ Domain(code, status) \in Errors /\ Domain(code, status) # None
         /\ Domain(code, status).kind = "domain"
         /\ Domain(code, status).code = code /\ Domain(code, status).status = status
<1>1. /\ Domain(code, status) \in Errors /\ Domain(code, status).kind = "domain"
      /\ Domain(code, status).code = code /\ Domain(code, status).status = status
  BY DEF Domain, Errors
<1> QED
  BY <1>1, StudioAssumption

LEMMA HttpTyped ==
  ASSUME NEW status \in Nat
  PROVE  /\ Http(status) \in Errors /\ Http(status) # None
         /\ Http(status).status = status
<1>1. Http(status) \in Errors /\ Http(status).status = status
  BY DEF Http, Errors
<1> QED
  BY <1>1, StudioAssumption

LEMMA UnforeseenTyped ==
  /\ Unforeseen \in Errors /\ Unforeseen # None
  /\ Unforeseen.kind = "other" /\ Unforeseen.status = 500
<1>1. /\ Unforeseen \in Errors
      /\ Unforeseen.kind = "other" /\ Unforeseen.status = 500
  BY DEF Unforeseen, Errors
<1> QED
  BY <1>1, StudioAssumption

\* An error is answered with its status and its code, and without an image.
LEMMA AnswerTyped ==
  ASSUME NEW error \in Errors
  PROVE  /\ AnswerTo(error) \in Answers /\ AnswerTo(error) # None
         /\ AnswerTo(error).status = error.status /\ AnswerTo(error).image = FALSE
         /\ error.kind = "domain" => AnswerTo(error).code = error.code
         /\ error.kind = "other" => AnswerTo(error).code = "INTERNAL_ERROR"
<1>1. /\ error.kind \in {"domain", "http", "other"} /\ error.status \in Nat
      /\ error.code \in DomainCodes \cup {None}
  BY DEF Errors
<1>2. HttpCode(error.status) \in HttpCodes
  BY DEF HttpCode, HttpCodes
<1> DEFINE code == CASE error.kind = "domain" -> error.code
                     [] error.kind = "http" -> HttpCode(error.status)
                     [] OTHER -> "INTERNAL_ERROR"
<1>3. code \in DomainCodes \cup HttpCodes \cup {"INTERNAL_ERROR", None}
  BY <1>1, <1>2
<1>6. /\ error.kind = "domain" => code = error.code
      /\ error.kind = "other" => code = "INTERNAL_ERROR"
  OBVIOUS
<1>4. AnswerTo(error) = [status |-> error.status, image |-> FALSE, code |-> code]
  BY DEF AnswerTo
<1> HIDE DEF code
<1>5. /\ AnswerTo(error) \in Answers
      /\ AnswerTo(error).status = error.status /\ AnswerTo(error).image = FALSE
      /\ AnswerTo(error).code = code
  BY <1>1, <1>3, <1>4 DEF Answers
<1> QED
  BY <1>5, <1>6, StudioAssumption

LEMMA FailureGiven ==
  ASSUME NEW error \in Errors, Fail(error)
  PROVE  /\ answer' # None /\ answer'.status = error.status
         /\ error.kind = "domain" => answer'.code = error.code
         /\ error.kind = "other" => answer'.code = "INTERNAL_ERROR"
BY AnswerTyped DEF Fail, Reply

LEMMA GoodAnswers ==
  /\ Done \in Answers /\ Done # None /\ Done.status = 200 /\ Done.code = None
  /\ Image \in Answers /\ Image # None /\ Image.status = 200 /\ Image.code = None
  /\ Image.image = TRUE
<1>1. Done \in Answers /\ Done.status = 200 /\ Done.code = None
  BY DEF Done, Answers
<1>2. Image \in Answers /\ Image.status = 200 /\ Image.code = None /\ Image.image = TRUE
  BY DEF Image, Answers
<1> QED
  BY <1>1, <1>2, StudioAssumption

LEMMA SuccessGiven ==
  ASSUME Reply(Done) \/ Reply(Image)
  PROVE  answer' # None /\ answer'.status = 200 /\ answer'.code = None
BY GoodAnswers DEF Reply

\* Which service a route cannot do without.
LEMMA ServicesOfRoutes ==
  /\ \A route \in {"catalog/render", "catalog/render-finale", "catalog/render-mask"} :
       ServiceOf(route) = "gemini"
  /\ ServiceOf("catalog/render3d") = "blender"
  /\ \A route \in {"catalog/perspective", "catalog/perspective/auto"} :
       ServiceOf(route) = "geocalib"
  /\ \A route \in Public \cup Preparation \cup {"catalog/configura"} : ServiceOf(route) = None
  /\ None \notin {"gemini", "blender", "geocalib"}
BY StudioAssumption DEF ServiceOf, Public, Preparation

\* A request is in order, or refused with a code of its own, unless its body is
\* too large or its session was deleted meanwhile.
LEMMA RefusalTyped ==
  ASSUME NEW r \in Requests
  PROVE  \/ Refusal(r) = None /\ (ServiceOf(r.route) # None => InOrder(r))
         \/ /\ Refusal(r) \in Errors /\ Refusal(r) # None
            /\ \/ Refusal(r).status \in {400, 401, 403, 429}
               \/ Refusal(r).status = 500 /\ (r.oversized \/ r.session = "deleted")
<1> DEFINE refusals == {Http(429), Domain("SETUP_REQUIRED", 403), Domain("UNAUTHENTICATED", 401),
                        Domain("SESSION_EXPIRED", 401), Http(400)}
<1>1. \A e \in refusals : e \in Errors /\ e # None /\ e.status \in {400, 401, 403, 429}
  BY HttpTyped, DomainTyped DEF DomainCodes
<1> HIDE DEF refusals
<1>2. Http(429) \in refusals /\ Domain("SETUP_REQUIRED", 403) \in refusals
      /\ Domain("UNAUTHENTICATED", 401) \in refusals
      /\ Domain("SESSION_EXPIRED", 401) \in refusals /\ Http(400) \in refusals
  BY DEF refusals
<1>3. r.route \in Routes /\ r.session \in Sessions
  BY StudioAssumption
<1>4. CASE r.oversized
  BY <1>4, UnforeseenTyped DEF Refusal
<1>5. CASE ~r.oversized
  <2>1. \/ /\ r.route \in Public \/ r.session = "live"
           /\ SessionRefusal(r) = None
        \/ r.session = "deleted" /\ SessionRefusal(r) = Unforeseen
        \/ SessionRefusal(r) \in refusals /\ SessionRefusal(r) # None
    BY <1>1, <1>2, <1>3 DEF SessionRefusal, Sessions
  <2>2. \/ Refusal(r) \in refusals
        \/ r.session = "deleted" /\ Refusal(r) = Unforeseen
        \/ /\ Refusal(r) = None /\ ~r.throttled /\ ~SetupMissing(r)
           /\ SessionRefusal(r) = None /\ Valid(r)
    BY <1>2, <1>5, <2>1, UnforeseenTyped DEF Refusal
  <2>3. ASSUME ~r.throttled, ~SetupMissing(r), SessionRefusal(r) = None, Valid(r),
               ServiceOf(r.route) # None
        PROVE  InOrder(r)
    <3>1. r.route \notin Public \cup Preparation
      BY <2>3, ServicesOfRoutes
    <3>2. r.session = "live"
      BY <1>1, <2>1, <2>3, <3>1, UnforeseenTyped
    <3>3. r.agreed /\ r.completed
      BY <2>3, <3>1, <3>2 DEF SetupMissing
    <3> QED
      BY <1>5, <2>3, <3>2, <3>3 DEF InOrder
  <2> QED
    BY <1>1, <2>2, <2>3, UnforeseenTyped
<1> QED
  BY <1>4, <1>5

LEMMA InOrderAdmitted ==
  ASSUME NEW r, InOrder(r)
  PROVE  Refusal(r) = None
<1>1. ~r.oversized /\ ~r.throttled /\ r.session = "live" /\ Valid(r)
  BY DEF InOrder
<1>2. ~SetupMissing(r)
  BY DEF InOrder, SetupMissing
<1>3. SessionRefusal(r) = None
  BY <1>1 DEF SessionRefusal
<1> QED
  BY <1>1, <1>2, <1>3 DEF Refusal

\* A product is priced by a catalog, or refused with a code of its own.
LEMMA NotPricedTyped ==
  ASSUME NEW f, NEW id
  PROVE  \/ NotPriced(f, id) = None /\ Priced(Entry(id), f)
         \/ /\ NotPriced(f, id) \in Errors /\ NotPriced(f, id) # None
            /\ NotPriced(f, id).status = 400
<1>1. /\ NotLoaded \in Errors /\ NotLoaded # None /\ NotLoaded.status = 400
      /\ Domain("CONFIGURAZIONE_NON_VALIDA", 400) \in Errors
      /\ Domain("CONFIGURAZIONE_NON_VALIDA", 400) # None
      /\ Domain("CONFIGURAZIONE_NON_VALIDA", 400).status = 400
  BY DomainTyped DEF DomainCodes, NotLoaded
<1> QED
  BY <1>1 DEF NotPriced

-----------------------------------------------------------------------------
(* What a waiting handler knows, and how it answers.                       *)

LEMMA Waiting ==
  ASSUME StudioInv, NEW s \in Routes \cup Waits, Awaiting(s)
  PROVE  /\ request \in Requests /\ request # None /\ Underway
         /\ step = s /\ answer = None /\ heard \in Seq(Outcomes)
<1>1. step = s /\ answer = None /\ s # None
  BY StudioAssumption DEF Awaiting
<1> QED
  BY <1>1 DEF StudioInv

\* A handler called has done nothing yet.
LEMMA Called ==
  ASSUME StudioInv, NEW s \in Routes, Awaiting(s)
  PROVE  /\ request \in Requests /\ request # None /\ request.route = s
         /\ ServiceOf(s) # None => InOrder(request)
         /\ heard = <<>> /\ scenes = <<>> /\ contents = <<>>
<1>1. request \in Requests /\ request # None /\ Underway /\ step = s
  BY Waiting
<1>2. s \notin Waits
  BY DEF Routes, Public, Preparation, Waits
<1> QED
  BY <1>1, <1>2 DEF Underway, Waits

\* An answer leaves the rest as it is.
LEMMA AnswerGiven ==
  ASSUME StudioInv, request # None, request' = request, answer' # None,
         heard' \in Seq(Outcomes), FailuresNamed', FinaleAsAsked'
  PROVE  StudioInv'
BY DEF StudioInv

\* One given before any service was heard, if none is needed.
LEMMA PlainAnswer ==
  ASSUME StudioInv, request # None, request' = request, ServiceOf(request.route) = None,
         answer' # None, heard = <<>>, heard' = heard
  PROVE  StudioInv'
<1>1. heard' \in Seq(Outcomes)
  BY DEF StudioInv
<1>2. FailuresNamed' /\ FinaleAsAsked'
  BY DEF FailuresNamed, FinaleAsAsked
<1> QED
  BY <1>1, <1>2, AnswerGiven

\* And if one is: it says that the service is missing, or something that the
\* service has no part in.
LEMMA EarlyAnswer ==
  ASSUME StudioInv, request # None, request' = request, services' = services,
         heard = <<>>, heard' = heard, InOrder(request),
         NEW service \in {"gemini", "blender", "geocalib"}, ServiceOf(request.route) = service,
         NEW error \in Errors, Fail(error),
         \/ /\ ~services[service] /\ error.status = 503
            /\ error.kind = "domain" /\ error.code = MissingCode(service)
         \/ services[service] /\ error.status \in {400, 422}
  PROVE  StudioInv'
<1>1. heard' \in Seq(Outcomes)
  BY DEF StudioInv
<1>2. /\ answer' # None /\ answer'.status = error.status
      /\ error.kind = "domain" => answer'.code = error.code
  BY FailureGiven
<1>3. InOrder(request') /\ ServiceOf(request'.route) = service
  OBVIOUS
<1>4. FailuresNamed'
  BY <1>2, <1>3 DEF FailuresNamed
<1>5. FinaleAsAsked'
  BY DEF FinaleAsAsked
<1> QED
  BY <1>1, <1>2, <1>4, <1>5, AnswerGiven

\* A handler goes on waiting.
LEMMA GoesOn ==
  ASSUME StudioInv, request # None, request' = request, answer = None, answer' = answer,
         heard' \in Seq(Outcomes), Underway'
  PROVE  StudioInv'
<1>1. FailuresNamed' /\ FinaleAsAsked'
  BY DEF FailuresNamed, FinaleAsAsked, Answered
<1> QED
  BY <1>1 DEF StudioInv

-----------------------------------------------------------------------------
(* The handlers, up to their first call of a service.                      *)

LEMMA ShowSteps ==
  ASSUME StudioInv, ShowCatalog \/ ShowLogo \/ ServicesStatus
  PROVE  StudioInv'
<1>1. PICK s \in Public \cup Preparation : Awaiting(s)
  BY DEF ShowCatalog, ShowLogo, ServicesStatus, Public, Preparation
<1>2. request # None /\ heard = <<>> /\ ServiceOf(request.route) = None
  BY <1>1, Called, ServicesOfRoutes DEF Routes
<1>3. request' = request /\ heard' = heard
  BY DEF ShowCatalog, ShowLogo, ServicesStatus
<1>4. answer' # None
  <2>1. Reply(Done) \/ Fail(NotLoaded) \/ Fail(Http(404))
    BY DEF ShowCatalog, ShowLogo, ServicesStatus
  <2>2. NotLoaded \in Errors /\ Http(404) \in Errors
    BY DomainTyped, HttpTyped DEF DomainCodes, NotLoaded
  <2> QED
    BY <2>1, <2>2, SuccessGiven, FailureGiven
<1> QED
  BY <1>2, <1>3, <1>4, PlainAnswer

LEMMA ConfiguraStep == ASSUME StudioInv, Configura PROVE StudioInv'
<1>1. request # None /\ heard = <<>> /\ ServiceOf(request.route) = None
  BY Called, ServicesOfRoutes DEF Configura, Routes
<1>2. request' = request /\ heard' = heard
  BY DEF Configura
<1>3. PICK error : error = NotPriced(request.form, request.form.catalogo)
  OBVIOUS
<1>4. error = None \/ error \in Errors
  BY <1>3, NotPricedTyped
<1>5. Reply(Done) \/ (Fail(error) /\ error # None)
  BY <1>3 DEF Configura
<1>6. answer' # None
  BY <1>4, <1>5, SuccessGiven, FailureGiven
<1> QED
  BY <1>1, <1>2, <1>6, PlainAnswer

\* A handler calls the service its route needs.
LEMMA CallMade ==
  ASSUME StudioInv, request # None, answer = None, request' = request, services' = services,
         heard = <<>>, heard' = heard, Supported, NEW s, Await(s),
         \/ request.route = "catalog/render" /\ s \in {"assets", "generate"}
         \/ request.route = "catalog/render-mask" /\ s = "mask"
         \/ request.route = "catalog/render3d" /\ s = "blender"
         \/ request.route = "catalog/perspective" /\ s = "calibrate"
         \/ request.route = "catalog/perspective/auto" /\ s = "detect"
  PROVE  StudioInv'
<1>1. Supported'
  BY DEF Supported
<1>2. Underway'
  BY <1>1 DEF Underway, Await
<1>3. heard' \in Seq(Outcomes)
  BY DEF StudioInv
<1> QED
  BY <1>2, <1>3, GoesOn DEF Await

\* The generator is missing, or the product cannot be rendered.
LEMMA NoRendering ==
  ASSUME StudioInv, request # None, request' = request, services' = services,
         heard = <<>>, heard' = heard, InOrder(request), ServiceOf(request.route) = "gemini",
         \/ ~services.gemini /\ Fail(NoGenerator)
         \/ /\ services.gemini /\ Renderable(request.form) # None
            /\ Fail(Renderable(request.form))
         \/ services.gemini /\ Fail(Domain("NESSUNA_IMMAGINE_RIFERIMENTO", 422))
  PROVE  StudioInv'
<1>1. CASE ~services.gemini /\ Fail(NoGenerator)
  <2>1. /\ NoGenerator \in Errors /\ NoGenerator.status = 503
        /\ NoGenerator.kind = "domain" /\ NoGenerator.code = MissingCode("gemini")
    BY DomainTyped DEF DomainCodes, NoGenerator, MissingCode
  <2> QED
    BY <1>1, <2>1, EarlyAnswer
<1>2. CASE /\ services.gemini /\ Renderable(request.form) # None
           /\ Fail(Renderable(request.form))
  <2>1. Renderable(request.form) \in Errors /\ Renderable(request.form).status = 400
    BY <1>2, NotPricedTyped DEF Renderable
  <2> QED
    BY <1>2, <2>1, EarlyAnswer
<1>3. CASE services.gemini /\ Fail(Domain("NESSUNA_IMMAGINE_RIFERIMENTO", 422))
  <2>1. /\ Domain("NESSUNA_IMMAGINE_RIFERIMENTO", 422) \in Errors
        /\ Domain("NESSUNA_IMMAGINE_RIFERIMENTO", 422).status = 422
    BY DomainTyped DEF DomainCodes
  <2> QED
    BY <1>3, <2>1, EarlyAnswer
<1> QED
  BY <1>1, <1>2, <1>3

LEMMA RenderSteps ==
  ASSUME StudioInv, Render \/ RenderMask
  PROVE  StudioInv'
<1>1. PICK s \in {"catalog/render", "catalog/render-mask"} : Awaiting(s)
  BY DEF Render, RenderMask
<1>2. /\ request # None /\ request.route = s /\ heard = <<>> /\ answer = None
      /\ InOrder(request) /\ ServiceOf(request.route) = "gemini"
      /\ ServiceOf(request.route) # None
  BY <1>1, Called, Waiting, ServicesOfRoutes DEF Routes
<1>3. request' = request /\ heard' = heard /\ services' = services
  BY DEF Render, RenderMask, served
<1>4. CASE \/ services.gemini /\ Render /\ Await("assets")
           \/ services.gemini /\ RenderMask /\ Await("mask")
  <2>1. Supported
    BY <1>2, <1>4 DEF Supported
  <2>2. \/ request.route = "catalog/render" /\ Await("assets")
        \/ request.route = "catalog/render-mask" /\ Await("mask")
    <3>1. step = s
      BY <1>1 DEF Awaiting
    <3> QED
      BY <1>2, <1>4, <3>1 DEF Render, RenderMask, Awaiting
  <2> QED
    BY <1>2, <1>3, <2>1, <2>2, CallMade
<1>5. CASE \/ ~services.gemini /\ Fail(NoGenerator)
           \/ /\ services.gemini /\ Renderable(request.form) # None
              /\ Fail(Renderable(request.form))
           \/ services.gemini /\ Fail(Domain("NESSUNA_IMMAGINE_RIFERIMENTO", 422))
  BY <1>2, <1>3, <1>5, NoRendering
<1> QED
  BY <1>4, <1>5 DEF Render, RenderMask

LEMMA PerspectiveStep == ASSUME StudioInv, Perspective PROVE StudioInv'
<1>1. PICK s \in {"catalog/perspective", "catalog/perspective/auto"} : Awaiting(s)
  BY DEF Perspective
<1>2. /\ request # None /\ request.route = s /\ step = s /\ heard = <<>> /\ answer = None
      /\ InOrder(request) /\ ServiceOf(request.route) = "geocalib"
      /\ ServiceOf(request.route) # None
  BY <1>1, Called, Waiting, ServicesOfRoutes DEF Routes
<1>3. request' = request /\ heard' = heard /\ services' = services
  BY DEF Perspective, served
<1>4. CASE services.geocalib
  <2>1. Supported
    BY <1>2, <1>4 DEF Supported
  <2>2. \/ request.route = "catalog/perspective" /\ Await("calibrate")
        \/ request.route = "catalog/perspective/auto" /\ Await("detect")
    BY <1>2, <1>4 DEF Perspective
  <2> QED
    BY <1>2, <1>3, <2>1, <2>2, CallMade
<1>5. CASE ~services.geocalib
  <2>1. Fail(NoPerspective)
    BY <1>5 DEF Perspective
  <2>2. /\ NoPerspective \in Errors /\ NoPerspective.status = 503
        /\ NoPerspective.kind = "domain" /\ NoPerspective.code = MissingCode("geocalib")
    BY DomainTyped DEF DomainCodes, NoPerspective, MissingCode
  <2> QED
    BY <1>2, <1>3, <1>5, <2>1, <2>2, EarlyAnswer
<1> QED
  BY <1>4, <1>5

LEMMA RenderFinaleStep == ASSUME StudioInv, RenderFinale PROVE StudioInv'
<1>1. /\ request # None /\ request.route = "catalog/render-finale" /\ heard = <<>>
      /\ scenes = <<>> /\ contents = <<>> /\ heard \in Seq(Outcomes) /\ answer = None
      /\ InOrder(request) /\ ServiceOf(request.route) = "gemini"
      /\ ServiceOf(request.route) # None
  BY Called, Waiting, ServicesOfRoutes DEF RenderFinale, Routes
<1>2. /\ request' = request /\ heard' = heard /\ scenes' = scenes /\ contents' = contents
      /\ services' = services
  BY DEF RenderFinale, served
<1>3. CASE services.gemini /\ Renderable(request.form) = None
  <2>1. Await("views")
    BY <1>3 DEF RenderFinale
  <2>2. Supported'
    BY <1>1, <1>2, <1>3 DEF Supported
  <2>3. FinaleChecked'
    <3>1. Entry(None) = "arquati"
      BY DEF Entry, OrElse
    <3>2. Priced("arquati", request.form)
      BY <1>3, <3>1, NotPricedTyped DEF Renderable
    <3>3. ValidFinale(request.form)
      BY <1>1 DEF InOrder, Valid
    <3> QED
      BY <1>1, <1>2, <3>2, <3>3 DEF FinaleChecked
  <2>4. ViewsAsked(0)'
    <3>1. scenes' = <<>> /\ contents' = <<>> /\ heard' = <<>>
      BY <1>1, <1>2
    <3>2. DrawnViews(0)' = {}
      BY DEF DrawnViews
    <3>3. Cardinality({}) = 0
      BY FS_EmptySet
    <3>4. /\ scenes' \in Seq(ViewScenes') /\ Len(scenes') = 0
          /\ contents' \in Seq(PresetNames) /\ Len(contents') = 0
      BY <3>1, EmptySeq
    <3>5. Shown' = {}
      BY <3>1 DEF Shown
    <3>6. PresetsAt({}) = {}
      BY DEF PresetsAt
    <3>7. 1..0 = {}
      OBVIOUS
    <3> QED
      BY <3>2, <3>3, <3>4, <3>5, <3>6, <3>7 DEF ViewsAsked
  <2>5. Len(heard') = 0 /\ 0 \in 0..2 /\ step' = "views"
    BY <1>1, <1>2, <2>1 DEF Await
  <2>6. Underway'
    BY <2>2, <2>3, <2>4, <2>5 DEF Underway
  <2> QED
    BY <1>1, <1>2, <2>1, <2>6, GoesOn DEF Await
<1>4. CASE \/ ~services.gemini /\ Fail(NoGenerator)
           \/ /\ services.gemini /\ Renderable(request.form) # None
              /\ Fail(Renderable(request.form))
  BY <1>1, <1>2, <1>4, NoRendering
<1> QED
  BY <1>3, <1>4 DEF RenderFinale

LEMMA Render3dStep == ASSUME StudioInv, Render3d PROVE StudioInv'
<1>1. /\ request # None /\ request.route = "catalog/render3d" /\ heard = <<>>
      /\ answer = None /\ InOrder(request)
      /\ ServiceOf(request.route) = "blender" /\ ServiceOf(request.route) # None
  BY Called, Waiting, ServicesOfRoutes DEF Render3d, Routes
<1>2. request' = request /\ heard' = heard /\ services' = services
  BY DEF Render3d, served
<1>3. CASE services.blender
  <2>1. Supported /\ Await("blender")
    BY <1>1, <1>3 DEF Supported, Render3d
  <2> QED
    BY <1>1, <1>2, <2>1, CallMade
<1>4. CASE ~services.blender
  <2>1. PICK error : error = Domain("RENDER_3D_NON_CONFIGURATO", 503)
    OBVIOUS
  <2>2. Fail(error)
    BY <1>4, <2>1 DEF Render3d
  <2>3. /\ error \in Errors /\ error.status = 503
        /\ error.kind = "domain" /\ error.code = MissingCode("blender")
    BY <2>1, DomainTyped DEF DomainCodes, MissingCode
  <2> QED
    BY <1>1, <1>2, <1>4, <2>2, <2>3, EarlyAnswer
<1> QED
  BY <1>3, <1>4

-----------------------------------------------------------------------------
(* The first thing heard from a service.                                   *)

\* What a handler waits for is a call of its own route.
LEMMA WaitsOfRoutes ==
  ASSUME StudioInv, NEW s \in Waits, Awaiting(s)
  PROVE  /\ request # None /\ answer = None /\ step = s /\ heard \in Seq(Outcomes)
         /\ Underway /\ request.route # step
<1>1. request \in Requests /\ request # None /\ Underway
      /\ step = s /\ answer = None /\ heard \in Seq(Outcomes)
  BY Waiting
<1>2. request.route \in Routes
  BY <1>1, StudioAssumption
<1>3. s \notin Routes
  BY DEF Routes, Public, Preparation, Waits
<1> QED
  BY <1>1, <1>2, <1>3

\* A rendering, a mask, a preview or a perspective waits for its only service.
LEMMA OneService ==
  ASSUME StudioInv, NEW s \in Waits, Awaiting(s),
         s \in {"assets", "mask", "blender", "calibrate", "detect"}
           \/ request.route = "catalog/render"
  PROVE  /\ request # None /\ answer = None /\ heard = <<>> /\ Supported
         /\ s \in {"assets", "generate"} => request.route = "catalog/render"
         /\ s = "mask" => request.route = "catalog/render-mask"
         /\ s = "blender" => request.route = "catalog/render3d"
         /\ s = "calibrate" => request.route = "catalog/perspective"
         /\ s = "detect" => request.route = "catalog/perspective/auto"
BY WaitsOfRoutes DEF Underway, FinaleChecked

\* What each route is told, outcome by outcome.
LEMMA RenderVerdicts ==
  /\ \A route \in {"catalog/render", "catalog/render-finale", "catalog/render-mask"} :
       /\ Verdict(route, "image") = <<200, None>>
       /\ Verdict(route, "no_image") = <<502, "RENDER_FALLITO">>
  /\ \A route \in {"catalog/render", "catalog/render-finale"} :
       Verdict(route, "throws") = <<500, "INTERNAL_ERROR">>
  /\ Verdict("catalog/render", "unread") = <<500, "INTERNAL_ERROR">>
  /\ Verdict("catalog/render-mask", "throws") = <<502, "RENDER_FALLITO">>
<1>1. /\ FailureCode("catalog/render") = "RENDER_FALLITO"
      /\ FailureCode("catalog/render-finale") = "RENDER_FALLITO"
      /\ FailureCode("catalog/render-mask") = "RENDER_FALLITO"
  BY ServicesOfRoutes DEF FailureCode
<1> QED
  BY <1>1 DEF Verdict

LEMMA ServiceVerdicts ==
  /\ Verdict("catalog/render3d", "drawn") = <<200, None>>
  /\ \A o \in {"unreachable", "failed"} :
       /\ Verdict("catalog/render3d", o) = <<502, "RENDER_3D_FALLITO">>
       /\ Verdict("catalog/perspective", o) = <<502, "PROSPETTIVA_FALLITA">>
  /\ Verdict("catalog/perspective", "rejected") = <<422, "PROSPETTIVA_NON_CALCOLABILE">>
  /\ \A route \in {"catalog/render3d", "catalog/perspective"} :
       Verdict(route, "garbled") = <<500, "INTERNAL_ERROR">>
  /\ \A route \in {"catalog/perspective", "catalog/perspective/auto"} :
       Verdict(route, "solved") = <<200, None>>
  /\ \A o \in GeoCalibOutcomes \ {"solved"} :
       Verdict("catalog/perspective/auto", o) = <<502, "ANALISI_FOTO_FALLITA">>
<1>1. /\ FailureCode("catalog/render3d") = "RENDER_3D_FALLITO"
      /\ FailureCode("catalog/perspective") = "PROSPETTIVA_FALLITA"
      /\ FailureCode("catalog/perspective/auto") = "ANALISI_FOTO_FALLITA"
  BY ServicesOfRoutes DEF FailureCode
<1> QED
  BY <1>1 DEF Verdict, GeoCalibOutcomes

\* What a success, a code of its own and the anonymous error tell the page.
Told == <<answer.status, answer.code>>

LEMMA SuccessTold ==
  ASSUME Reply(Done) \/ Reply(Image)
  PROVE  answer' # None /\ Told' = <<200, None>>
BY SuccessGiven DEF Told

LEMMA FailureTold ==
  ASSUME NEW error \in Errors, error.kind = "domain", Fail(error)
  PROVE  answer' # None /\ Told' = <<error.status, error.code>>
BY FailureGiven DEF Told

LEMMA UnforeseenTold ==
  ASSUME Fail(Unforeseen)
  PROVE  answer' # None /\ Told' = <<500, "INTERNAL_ERROR">>
BY FailureGiven, UnforeseenTyped DEF Told

LEMMA NoImageTyped ==
  /\ NoImage \in Errors /\ NoImage.kind = "domain"
  /\ NoImage.status = 502 /\ NoImage.code = "RENDER_FALLITO"
BY DomainTyped DEF DomainCodes, NoImage

\* Once a service was heard, its last outcome decides what is told.
LEMMA VerdictGiven ==
  ASSUME Supported, request' = request, services' = services, answer' # None,
         heard \in Seq(Outcomes), NEW outcome \in Outcomes, Hears(outcome),
         outcome \in OutcomesOf(ServiceOf(request.route)) \cup {"unread"},
         Told' = Verdict(request.route, outcome)
  PROVE  FailuresNamed'
<1>1. /\ Len(heard') = Len(heard) + 1 /\ heard'[Len(heard) + 1] = outcome
      /\ heard' \in Seq(Outcomes) /\ Len(heard) \in Nat
  BY AppendProperties, LenProperties DEF Hears
<1>2. heard' # <<>> /\ heard'[Len(heard')] = outcome
  BY <1>1, EmptySeq
<1>3. /\ InOrder(request') /\ ServiceOf(request'.route) = ServiceOf(request.route)
      /\ ServiceOf(request'.route) # None /\ services'[ServiceOf(request'.route)]
  BY DEF Supported
<1>4. <<answer'.status, answer'.code>> = Verdict(request'.route, outcome)
  BY DEF Told
<1> QED
  BY <1>2, <1>3, <1>4 DEF FailuresNamed

\* The outcome of the only service ends the request.
LEMMA OutcomeAnswered ==
  ASSUME StudioInv, request # None, request' = request, services' = services, Supported,
         request.route # "catalog/render-finale",
         heard = <<>>, NEW outcome \in Outcomes, Hears(outcome), answer' # None,
         outcome \in OutcomesOf(ServiceOf(request.route)) \cup {"unread"},
         Told' = Verdict(request.route, outcome)
  PROVE  StudioInv'
<1>1. heard' \in Seq(Outcomes) /\ heard \in Seq(Outcomes)
  BY EmptySeq, AppendProperties DEF Hears
<1>2. FailuresNamed'
  BY <1>1, VerdictGiven
<1>3. FinaleAsAsked'
  BY DEF FinaleAsAsked, Answered
<1> QED
  BY <1>1, <1>2, <1>3, AnswerGiven

LEMMA ReadAssetsStep ==
  ASSUME StudioInv, NEW readable \in BOOLEAN, ReadAssets(readable)
  PROVE  StudioInv'
<1>1. /\ Awaiting("assets") /\ "assets" \in Waits
      /\ request' = request /\ services' = services
  BY DEF ReadAssets, Waits, served
<1>2. request.route = "catalog/render"
  BY <1>1, OneService
<1>3. request # None /\ answer = None /\ heard = <<>> /\ Supported
  BY <1>1, OneService
<1>4. CASE readable
  <2>1. Await("generate") /\ heard' = heard
    BY <1>4 DEF ReadAssets
  <2> QED
    BY <1>1, <1>2, <1>3, <2>1, CallMade
<1>5. CASE ~readable
  <2>1. Fail(Unforeseen) /\ Hears("unread")
    BY <1>5 DEF ReadAssets
  <2>2. answer' # None /\ Told' = Verdict("catalog/render", "unread")
    BY <2>1, UnforeseenTold, RenderVerdicts
  <2>3. "unread" \in Outcomes
    BY DEF Outcomes
  <2> QED
    BY <1>1, <1>2, <1>3, <2>1, <2>2, <2>3, OutcomeAnswered
<1> QED
  BY <1>4, <1>5

\* A generation that ends a request tells its outcome.
LEMMA GenerationTold ==
  ASSUME NEW route \in {"catalog/render", "catalog/render-finale"},
         NEW outcome \in GeneratorOutcomes,
         \/ outcome = "image" /\ Reply(Image)
         \/ outcome = "no_image" /\ Fail(NoImage)
         \/ outcome = "throws" /\ Fail(Unforeseen)
  PROVE  answer' # None /\ Told' = Verdict(route, outcome)
<1>1. CASE outcome = "image" /\ Reply(Image)
  BY <1>1, SuccessTold, RenderVerdicts
<1>2. CASE outcome = "no_image" /\ Fail(NoImage)
  BY <1>2, NoImageTyped, FailureTold, RenderVerdicts
<1>3. CASE outcome = "throws" /\ Fail(Unforeseen)
  BY <1>3, UnforeseenTold, RenderVerdicts
<1> QED
  BY <1>1, <1>2, <1>3

LEMMA GenerateRenderStep ==
  ASSUME StudioInv, NEW outcome \in GeneratorOutcomes, GenerateRender(outcome)
  PROVE  StudioInv'
<1>1. /\ Awaiting("generate") /\ "generate" \in Waits
      /\ request' = request /\ services' = services
      /\ request.route = "catalog/render" /\ Hears(outcome) /\ outcome \in Outcomes
  BY DEF GenerateRender, Waits, Outcomes, served
<1>2. request # None /\ answer = None /\ heard = <<>> /\ Supported
  BY <1>1, OneService
<1>3. answer' # None /\ Told' = Verdict(request.route, outcome)
  <2>1. \/ outcome = "image" /\ Reply(Image)
        \/ outcome = "no_image" /\ Fail(NoImage)
        \/ outcome = "throws" /\ Fail(Unforeseen)
    BY DEF GenerateRender, GeneratorOutcomes
  <2> QED
    BY <1>1, <2>1, GenerationTold
<1>4. outcome \in OutcomesOf(ServiceOf(request.route))
  BY <1>1, ServicesOfRoutes DEF OutcomesOf
<1> QED
  BY <1>1, <1>2, <1>3, <1>4, OutcomeAnswered

LEMMA GenerateMaskStep ==
  ASSUME StudioInv, NEW outcome \in GeneratorOutcomes, GenerateMask(outcome)
  PROVE  StudioInv'
<1>1. /\ Awaiting("mask") /\ "mask" \in Waits
      /\ request' = request /\ services' = services
      /\ Hears(outcome) /\ outcome \in Outcomes
  BY DEF GenerateMask, Waits, Outcomes, served
<1>2. request.route = "catalog/render-mask"
  BY <1>1, OneService
<1>3. request # None /\ answer = None /\ heard = <<>> /\ Supported
  BY <1>1, OneService
<1>4. answer' # None /\ Told' = Verdict(request.route, outcome)
  <2>1. CASE outcome = "image"
    <3>1. Reply(Image)
      BY <2>1 DEF GenerateMask
    <3> QED
      BY <1>2, <2>1, <3>1, SuccessTold, RenderVerdicts
  <2>2. CASE outcome # "image"
    <3>1. Fail(NoImage) /\ outcome \in {"no_image", "throws"}
      BY <2>2 DEF GenerateMask, GeneratorOutcomes
    <3> QED
      BY <1>2, <3>1, NoImageTyped, FailureTold, RenderVerdicts
  <2> QED
    BY <2>1, <2>2
<1>5. outcome \in OutcomesOf(ServiceOf(request.route))
  BY <1>2, ServicesOfRoutes DEF OutcomesOf
<1> QED
  BY <1>1, <1>2, <1>3, <1>4, <1>5, OutcomeAnswered

LEMMA AnswerRender3dStep ==
  ASSUME StudioInv, NEW outcome \in BlenderOutcomes, AnswerRender3d(outcome)
  PROVE  StudioInv'
<1>1. /\ Awaiting("blender") /\ "blender" \in Waits
      /\ request' = request /\ services' = services
      /\ Hears(outcome) /\ outcome \in Outcomes
  BY DEF AnswerRender3d, Waits, Outcomes, served
<1>2. request.route = "catalog/render3d"
  BY <1>1, OneService
<1>3. request # None /\ answer = None /\ heard = <<>> /\ Supported
  BY <1>1, OneService
<1>4. answer' # None /\ Told' = Verdict(request.route, outcome)
  <2>1. /\ NotDrawn \in Errors /\ NotDrawn.kind = "domain"
        /\ NotDrawn.status = 502 /\ NotDrawn.code = "RENDER_3D_FALLITO"
    BY DomainTyped DEF DomainCodes, NotDrawn
  <2>2. CASE outcome = "drawn" /\ Reply(Image)
    BY <1>2, <2>2, SuccessTold, ServiceVerdicts
  <2>3. CASE outcome \in {"unreachable", "failed"} /\ Fail(NotDrawn)
    BY <1>2, <2>1, <2>3, FailureTold, ServiceVerdicts
  <2>4. CASE outcome = "garbled" /\ Fail(Unforeseen)
    BY <1>2, <2>4, UnforeseenTold, ServiceVerdicts
  <2> QED
    BY <2>2, <2>3, <2>4 DEF AnswerRender3d, BlenderOutcomes
<1>5. outcome \in OutcomesOf(ServiceOf(request.route))
  BY <1>2, ServicesOfRoutes DEF OutcomesOf
<1> QED
  BY <1>1, <1>2, <1>3, <1>4, <1>5, OutcomeAnswered

LEMMA CalibratedStep ==
  ASSUME StudioInv, NEW outcome \in GeoCalibOutcomes, Calibrated(outcome)
  PROVE  StudioInv'
<1>1. /\ Awaiting("calibrate") /\ "calibrate" \in Waits
      /\ request' = request /\ services' = services
      /\ Hears(outcome) /\ outcome \in Outcomes
  BY DEF Calibrated, Waits, Outcomes, served
<1>2. request.route = "catalog/perspective"
  BY <1>1, OneService
<1>3. request # None /\ answer = None /\ heard = <<>> /\ Supported
  BY <1>1, OneService
<1>4. answer' # None /\ Told' = Verdict(request.route, outcome)
  <2>1. PICK failed : failed = Domain("PROSPETTIVA_FALLITA", 502)
    OBVIOUS
  <2>2. PICK rejected : rejected = Domain("PROSPETTIVA_NON_CALCOLABILE", 422)
    OBVIOUS
  <2>3. CASE outcome = "solved"
    <3>1. Reply(Done)
      BY <2>3 DEF Calibrated
    <3> QED
      BY <1>2, <2>3, <3>1, SuccessTold, ServiceVerdicts
  <2>4. CASE outcome \in {"unreachable", "failed"}
    <3>1. Fail(failed)
      BY <2>1, <2>4 DEF Calibrated
    <3>2. /\ failed \in Errors /\ failed.kind = "domain"
          /\ failed.status = 502 /\ failed.code = "PROSPETTIVA_FALLITA"
      BY <2>1, DomainTyped DEF DomainCodes
    <3> QED
      BY <1>2, <2>4, <3>1, <3>2, FailureTold, ServiceVerdicts
  <2>5. CASE outcome = "rejected"
    <3>1. Fail(rejected)
      BY <2>2, <2>5 DEF Calibrated
    <3>2. /\ rejected \in Errors /\ rejected.kind = "domain"
          /\ rejected.status = 422 /\ rejected.code = "PROSPETTIVA_NON_CALCOLABILE"
      BY <2>2, DomainTyped DEF DomainCodes
    <3> QED
      BY <1>2, <2>5, <3>1, <3>2, FailureTold, ServiceVerdicts
  <2>6. CASE outcome = "garbled"
    <3>1. Fail(Unforeseen)
      BY <2>6 DEF Calibrated
    <3> QED
      BY <1>2, <2>6, <3>1, UnforeseenTold, ServiceVerdicts
  <2> QED
    BY <2>3, <2>4, <2>5, <2>6 DEF GeoCalibOutcomes
<1>5. outcome \in OutcomesOf(ServiceOf(request.route))
  BY <1>2, ServicesOfRoutes DEF OutcomesOf
<1> QED
  BY <1>1, <1>2, <1>3, <1>4, <1>5, OutcomeAnswered

LEMMA DetectedStep ==
  ASSUME StudioInv, NEW outcome \in GeoCalibOutcomes, Detected(outcome)
  PROVE  StudioInv'
<1>1. /\ Awaiting("detect") /\ "detect" \in Waits
      /\ request' = request /\ services' = services
      /\ Hears(outcome) /\ outcome \in Outcomes
  BY DEF Detected, Waits, Outcomes, served
<1>2. request.route = "catalog/perspective/auto"
  BY <1>1, OneService
<1>3. request # None /\ answer = None /\ heard = <<>> /\ Supported
  BY <1>1, OneService
<1>4. answer' # None /\ Told' = Verdict(request.route, outcome)
  <2>1. PICK failed : failed = Domain("ANALISI_FOTO_FALLITA", 502)
    OBVIOUS
  <2>2. CASE outcome = "solved"
    <3>1. Reply(Done)
      BY <2>2 DEF Detected
    <3> QED
      BY <1>2, <2>2, <3>1, SuccessTold, ServiceVerdicts
  <2>3. CASE outcome # "solved"
    <3>1. Fail(failed)
      BY <2>1, <2>3 DEF Detected
    <3>2. /\ failed \in Errors /\ failed.kind = "domain"
          /\ failed.status = 502 /\ failed.code = "ANALISI_FOTO_FALLITA"
      BY <2>1, DomainTyped DEF DomainCodes
    <3> QED
      BY <1>2, <2>3, <3>1, <3>2, FailureTold, ServiceVerdicts
  <2> QED
    BY <2>2, <2>3
<1>5. outcome \in OutcomesOf(ServiceOf(request.route))
  BY <1>2, ServicesOfRoutes DEF OutcomesOf
<1> QED
  BY <1>1, <1>2, <1>3, <1>4, <1>5, OutcomeAnswered

-----------------------------------------------------------------------------
(* The final rendering: its views, and at most two generations.            *)

LEMMA Views ==
  /\ Len(Presets) = 3
  /\ \A i \in 1..3 : Presets[i] \in PresetNames
<1>1. Len(Presets) = 3 /\ DOMAIN Presets = 1..3
  BY DEF Presets
<1> QED
  BY <1>1 DEF PresetNames

LEMMA DrawnViewsFinite ==
  ASSUME NEW n \in Nat
  PROVE  IsFiniteSet(DrawnViews(n)) /\ Cardinality(DrawnViews(n)) \in Nat
<1>1. IsFiniteSet(1..n)
  BY FS_Interval
<1>2. IsFiniteSet(DrawnViews(n))
  BY <1>1, FS_Subset DEF DrawnViews
<1> QED
  BY <1>2, FS_CardinalityType

\* One more view is asked for, and shown if it is drawn.
LEMMA OneMoreView ==
  ASSUME NEW n \in 0..2, ViewsAsked(n), heard \in Seq(Outcomes), Len(heard) = n,
         NEW outcome \in BlenderOutcomes, request' = request, services' = services,
         IF services.blender THEN scenes' = Append(scenes, ViewScene(Presets[n + 1]))
         ELSE UNCHANGED scenes,
         contents' = IF outcome = "drawn" THEN Append(contents, Presets[n + 1])
                     ELSE contents,
         heard' = Append(heard, outcome)
  PROVE  ViewsAsked(n + 1)' /\ Len(heard') = n + 1
<1>1. PICK preset \in PresetNames : preset = Presets[n + 1]
  <2>1. n + 1 \in 1..3
    OBVIOUS
  <2> QED
    BY <2>1, Views
<1>2. ViewScenes' = ViewScenes
  BY DEF ViewScenes, ViewScene
<1>3. PICK scene \in ViewScenes : scene = ViewScene(preset)
  BY DEF ViewScenes
<1>4. /\ scenes' \in Seq(ViewScenes)
      /\ Len(scenes') = IF services.blender THEN n + 1 ELSE 0
      /\ \A i \in 1..Len(scenes') : scenes'[i] = ViewScene(Presets[i])
  <2>1. /\ scenes \in Seq(ViewScenes) /\ Len(scenes) = IF services.blender THEN n ELSE 0
        /\ \A i \in 1..Len(scenes) : scenes[i] = ViewScene(Presets[i])
    BY DEF ViewsAsked
  <2>2. CASE ~services.blender
    BY <2>1, <2>2
  <2>3. CASE services.blender
    <3>1. scenes' = Append(scenes, scene) /\ Len(scenes) = n
      BY <1>1, <1>3, <2>1, <2>3
    <3>2. /\ scenes' \in Seq(ViewScenes) /\ Len(scenes') = n + 1
          /\ scenes'[n + 1] = scene /\ \A i \in 1..n : scenes'[i] = scenes[i]
      BY <2>1, <3>1, AppendProperties
    <3>3. \A i \in 1..n + 1 : i \in 1..n \/ i = n + 1
      OBVIOUS
    <3> QED
      BY <1>1, <1>3, <2>1, <2>3, <3>1, <3>2, <3>3
  <2> QED
    BY <2>2, <2>3
<1>5. /\ Len(heard') = n + 1 /\ heard'[n + 1] = outcome
      /\ \A i \in 1..n : heard'[i] = heard[i]
  <2>1. outcome \in Outcomes
    BY DEF Outcomes
  <2> QED
    BY <2>1, AppendProperties
<1>6. \A i \in 1..Len(scenes') : scenes'[i] = ViewScene(Presets[i])'
  BY <1>4 DEF ViewScene
<1>7. \A i \in 1..n + 1 : heard'[i] \in BlenderOutcomes
  <2>1. \A i \in 1..n : heard'[i] \in BlenderOutcomes
    BY <1>5 DEF ViewsAsked
  <2>2. \A i \in 1..n + 1 : i \in 1..n \/ i = n + 1
    OBVIOUS
  <2> QED
    BY <1>5, <2>1, <2>2
<1>8. DrawnViews(n + 1)' = IF outcome = "drawn" THEN DrawnViews(n) \cup {n + 1}
                           ELSE DrawnViews(n)
  BY <1>5 DEF DrawnViews
<1>9. /\ contents' \in Seq(PresetNames)
      /\ Len(contents') = Cardinality(DrawnViews(n + 1)')
      /\ Shown' = PresetsAt(DrawnViews(n + 1)')
  <2>1. /\ contents \in Seq(PresetNames) /\ Len(contents) = Cardinality(DrawnViews(n))
        /\ Shown = PresetsAt(DrawnViews(n))
    BY DEF ViewsAsked
  <2>2. CASE outcome # "drawn"
    <3>1. contents' = contents /\ DrawnViews(n + 1)' = DrawnViews(n)
      BY <2>2, <1>8
    <3>2. Shown' = Shown
      BY <3>1 DEF Shown
    <3> QED
      BY <2>1, <3>1, <3>2
  <2>3. CASE outcome = "drawn"
    <3>1. contents' = Append(contents, preset)
          /\ DrawnViews(n + 1)' = DrawnViews(n) \cup {n + 1}
      BY <2>3, <1>1, <1>8
    <3>2. /\ contents' \in Seq(PresetNames) /\ Len(contents') = Len(contents) + 1
          /\ contents'[Len(contents) + 1] = preset
          /\ \A i \in 1..Len(contents) : contents'[i] = contents[i]
      BY <2>1, <3>1, AppendProperties
    <3>3. Cardinality(DrawnViews(n) \cup {n + 1}) = Cardinality(DrawnViews(n)) + 1
      <4>1. n + 1 \notin DrawnViews(n)
        BY DEF DrawnViews
      <4>2. n \in Nat
        OBVIOUS
      <4>3. IsFiniteSet(DrawnViews(n))
        BY <4>2, DrawnViewsFinite
      <4> QED
        BY <4>1, <4>3, FS_AddElement
    <3>4. Shown' = Shown \cup {preset}
      <4>1. Len(contents) \in Nat /\ DOMAIN contents = 1..Len(contents)
            /\ DOMAIN contents' = 1..Len(contents) + 1
        BY <2>1, <3>2, LenProperties
      <4>2. \A i \in DOMAIN contents' :
              i \in DOMAIN contents \/ i = Len(contents) + 1
        BY <4>1
      <4>3. \A i \in DOMAIN contents : i \in DOMAIN contents' /\ contents'[i] = contents[i]
        BY <3>2, <4>1
      <4>4. Len(contents) + 1 \in DOMAIN contents'
        BY <4>1
      <4>5. \A x : x \in Shown' <=> x \in Shown \cup {preset}
        BY <3>2, <4>2, <4>3, <4>4 DEF Shown
      <4> QED
        BY <4>5
    <3>5. PresetsAt(DrawnViews(n) \cup {n + 1}) = PresetsAt(DrawnViews(n)) \cup {preset}
      BY <1>1 DEF PresetsAt
    <3> QED
      BY <2>1, <3>1, <3>2, <3>3, <3>4, <3>5
  <2> QED
    BY <2>2, <2>3
<1>10. scenes' \in Seq(ViewScenes')
  BY <1>2, <1>4
<1> QED
  BY <1>4, <1>5, <1>6, <1>7, <1>9, <1>10 DEF ViewsAsked

LEMMA AskViewStep ==
  ASSUME StudioInv, NEW outcome \in BlenderOutcomes, AskView(outcome)
  PROVE  StudioInv'
<1>1. /\ Awaiting("views") /\ "views" \in Waits
      /\ request' = request /\ services' = services
  BY DEF AskView, Waits, served
<1>2. /\ request # None /\ answer = None /\ step = "views" /\ heard \in Seq(Outcomes)
      /\ Underway /\ request.route # step
  BY <1>1, WaitsOfRoutes
<1>3. FinaleChecked /\ Supported /\ \E n \in 0..2 : Len(heard) = n /\ ViewsAsked(n)
  BY <1>2 DEF Underway
<1>4. PICK n \in 0..2 : Len(heard) = n /\ ViewsAsked(n)
  BY <1>3
<1>6. /\ IF services.blender THEN scenes' = Append(scenes, ViewScene(Presets[n + 1]))
         ELSE UNCHANGED scenes
      /\ contents' = IF outcome = "drawn" THEN Append(contents, Presets[n + 1])
                     ELSE contents
      /\ heard' = Append(heard, outcome)
      /\ Await(IF n + 1 = 3 THEN "generate" ELSE "views")
  BY <1>4, Views DEF AskView, Asked, Hears
<1>7. ViewsAsked(n + 1)' /\ Len(heard') = n + 1
  BY <1>1, <1>2, <1>4, <1>6, OneMoreView
<1>8. FinaleChecked' /\ Supported'
  BY <1>1, <1>3 DEF FinaleChecked, Supported
<1>9. heard' \in Seq(Outcomes)
  BY <1>2, <1>6, AppendProperties DEF Outcomes
<1>10. Underway'
  <2>1. CASE n = 2
    BY <1>6, <1>7, <1>8, <2>1 DEF Underway, Await
  <2>2. CASE n \in 0..1
    <3>1. PICK m \in 0..2 : m = n + 1
      BY <2>2
    <3>2. step' = "views" /\ Len(heard') = m /\ ViewsAsked(m)'
      BY <1>6, <1>7, <2>2, <3>1 DEF Await
    <3> QED
      BY <1>8, <3>2 DEF Underway
  <2> QED
    BY <2>1, <2>2
<1> QED
  BY <1>1, <1>2, <1>6, <1>9, <1>10, GoesOn DEF Await

\* A scene asked for is one of the product: its size, its drop, its guides.
LEMMA SceneAsAsked ==
  ASSUME NEW preset, request \in Requests, FinaleChecked
  PROVE  LET scene == ViewScene(preset) IN
         /\ scene.viewPreset = preset
         /\ scene.L_cm = request.form.lRichiestaCm
         /\ scene.P_cm = request.form.pRichiestaCm
         /\ scene.H_cm + request.form.deltaHCm = request.form.altezzaMontantiCm
         /\ scene.nGuide = GuideCount[request.form.varianteMontaggio]
<1> DEFINE f == request.form
           view == ReferenceView(f, preset)
<1>1. /\ f.altezzaMontantiCm \in Int /\ f.deltaHCm \in Int
  <2>1. {f.altezzaMontantiCm, f.deltaHCm} \subseteq Int \cup {None}
    BY StudioAssumption DEF FinaleChecked
  <2>2. f.altezzaMontantiCm # None /\ f.deltaHCm # None
    BY DEF FinaleChecked, ValidFinale, ValidConfigura, AtLeast
  <2> QED
    BY <2>1, <2>2
<1>2. f.varianteMontaggio # None
  <2>1. PICK priced \in Priceable["arquati"] : priced = <<f.sottoModello, f.varianteMontaggio>>
    BY DEF FinaleChecked, Priced
  <2>2. priced[2] # None
    BY StudioAssumption
  <2> QED
    BY <2>1, <2>2
<1>3. /\ view.lRichiestaCm = f.lRichiestaCm /\ view.pRichiestaCm = f.pRichiestaCm
      /\ view.altezzaCm = f.altezzaMontantiCm /\ view.deltaHCm = f.deltaHCm
      /\ view.varianteMontaggio = f.varianteMontaggio /\ view.catalogo = None
      /\ view.viewPreset = preset
  BY DEF ReferenceView
<1>4. None # "pratic"
  BY StudioAssumption DEF CatalogIds
<1> HIDE DEF view
<1>5. /\ Scene(view).L_cm = f.lRichiestaCm /\ Scene(view).P_cm = f.pRichiestaCm
      /\ Scene(view).H_cm = f.altezzaMontantiCm - f.deltaHCm
      /\ Scene(view).nGuide = GuideCount[f.varianteMontaggio]
      /\ Scene(view).viewPreset = preset
  <2>1. /\ Scene(view).L_cm = view.lRichiestaCm /\ Scene(view).P_cm = view.pRichiestaCm
        /\ Scene(view).H_cm = FrontHeight(view)
        /\ Scene(view).nGuide = IF view.varianteMontaggio = None THEN None
                                ELSE GuideCount[view.varianteMontaggio]
        /\ Scene(view).viewPreset = view.viewPreset
    BY DEF Scene
  <2>2. FrontHeight(view) = f.altezzaMontantiCm - f.deltaHCm
    BY <1>3, <1>4 DEF FrontHeight
  <2> QED
    BY <1>2, <1>3, <2>1, <2>2
<1>6. PICK scene : scene = ViewScene(preset)
  OBVIOUS
<1>7. scene = Scene(view)
  BY <1>6 DEF ViewScene, view
<1>8. /\ scene.L_cm = f.lRichiestaCm /\ scene.P_cm = f.pRichiestaCm
      /\ scene.H_cm + f.deltaHCm = f.altezzaMontantiCm
      /\ scene.nGuide = GuideCount[f.varianteMontaggio] /\ scene.viewPreset = preset
  BY <1>1, <1>5, <1>7
<1> QED
  BY <1>6, <1>8

\* The generator is asked for the first time, or again after no image.
LEMMA GenerationsCounted ==
  ASSUME heard \in Seq(Outcomes), \A i \in 1..3 : heard[i] \in BlenderOutcomes,
         Len(heard) = 3 \/ (Len(heard) = 4 /\ heard[4] = "no_image")
  PROVE  TriedAgain <=> Len(heard) = 4
<1>1. \A o \in BlenderOutcomes : o \notin GeneratorOutcomes
  BY DEF BlenderOutcomes, GeneratorOutcomes
<1>2. DOMAIN heard = 1..Len(heard)
  BY LenProperties
<1>3. CASE Len(heard) = 3
  <2>1. PICK S : S = {i \in DOMAIN heard : heard[i] \in GeneratorOutcomes}
    OBVIOUS
  <2>2. S = {}
    BY <1>1, <1>2, <1>3, <2>1
  <2>3. Generations = Cardinality(S)
    BY <2>1 DEF Generations
  <2> QED
    BY <1>3, <2>2, <2>3, FS_EmptySet DEF TriedAgain
<1>4. CASE Len(heard) = 4 /\ heard[4] = "no_image"
  <2>1. PICK S : S = {i \in DOMAIN heard : heard[i] \in GeneratorOutcomes}
    OBVIOUS
  <2>2. S = {4}
    <3>1. \A i \in DOMAIN heard : i \in 1..3 \/ i = 4
      BY <1>2, <1>4
    <3>2. \A i \in 1..3 : heard[i] \notin GeneratorOutcomes
      BY <1>1
    <3>3. 4 \in DOMAIN heard /\ heard[4] \in GeneratorOutcomes
      BY <1>2, <1>4 DEF GeneratorOutcomes
    <3> QED
      BY <2>1, <3>1, <3>2, <3>3
  <2>3. Generations = Cardinality(S)
    BY <2>1 DEF Generations
  <2>4. Cardinality({4}) = 1
    BY FS_Singleton
  <2> QED
    BY <1>4, <2>2, <2>3, <2>4 DEF TriedAgain
<1> QED
  BY <1>3, <1>4

\* A final rendering that ends is as it was asked for.
LEMMA FinaleEnds ==
  ASSUME request \in Requests, FinaleChecked, ViewsAsked(3), heard \in Seq(Outcomes),
         Len(heard) = 3 \/ (Len(heard) = 4 /\ heard[4] = "no_image"),
         NEW outcome \in GeneratorOutcomes, heard' = Append(heard, outcome),
         request' = request, services' = services, scenes' = scenes, contents' = contents,
         answer'.image <=> outcome = "image"
  PROVE  FinaleAsAsked'
<1> DEFINE n == Len(heard)
<1>1. /\ Len(heard') = n + 1 /\ heard'[n + 1] = outcome /\ n \in 3..4
      /\ \A i \in 1..n : heard'[i] = heard[i]
  BY AppendProperties DEF Outcomes
<1>2. DrawnViews(Len(Presets))' = DrawnViews(3)
  BY <1>1, Views DEF DrawnViews
<1>3. Len(contents') = Cardinality(DrawnViews(Len(Presets))')
  BY <1>2 DEF ViewsAsked
<1>4. Shown' = PresetsAt(DrawnViews(Len(Presets))')
  <2>1. Shown' = Shown
    BY DEF Shown
  <2> QED
    BY <1>2, <2>1 DEF ViewsAsked
<1>5. \A i \in DOMAIN scenes' :
        /\ scenes'[i].L_cm = request'.form.lRichiestaCm
        /\ scenes'[i].P_cm = request'.form.pRichiestaCm
        /\ scenes'[i].viewPreset = Presets[i]
        /\ scenes'[i].H_cm + request'.form.deltaHCm = request'.form.altezzaMontantiCm
        /\ scenes'[i].nGuide = GuideCount[request'.form.varianteMontaggio]
  <2>1. \A i \in DOMAIN scenes : scenes[i] = ViewScene(Presets[i])
    BY LenProperties DEF ViewsAsked
  <2> QED
    BY <2>1, SceneAsAsked
<1>10. Len(scenes') = IF services'.blender THEN Len(Presets) ELSE 0
  BY Views DEF ViewsAsked
<1>6. Priced("arquati", request'.form)
  BY DEF FinaleChecked
<1>7. Len(heard') = Len(Presets) + 2 => heard'[Len(Presets) + 1] = "no_image"
  BY <1>1, Views
<1>8. Len(heard') \in {Len(Presets) + 1, Len(Presets) + 2}
  BY <1>1, Views
<1>9. answer'.image <=> heard'[Len(heard')] = "image"
  BY <1>1
<1> QED
  BY <1>3, <1>4, <1>5, <1>6, <1>7, <1>8, <1>9, <1>10 DEF FinaleAsAsked

LEMMA GenerateFinaleStep ==
  ASSUME StudioInv, NEW outcome \in GeneratorOutcomes, GenerateFinale(outcome)
  PROVE  StudioInv'
<1>1. /\ Awaiting("generate") /\ "generate" \in Waits /\ outcome \in Outcomes
      /\ request.route = "catalog/render-finale"
      /\ request' = request /\ services' = services
      /\ scenes' = scenes /\ contents' = contents /\ heard' = Append(heard, outcome)
  BY DEF GenerateFinale, Waits, Outcomes, Hears, served
<1>2. /\ request # None /\ request \in Requests /\ answer = None /\ step = "generate"
      /\ heard \in Seq(Outcomes) /\ Underway
  BY <1>1, WaitsOfRoutes, Waiting
<1>3. /\ FinaleChecked /\ Supported /\ ViewsAsked(3)
      /\ Len(heard) = 3 \/ (Len(heard) = 4 /\ heard[4] = "no_image")
  BY <1>1, <1>2 DEF Underway
<1>4. /\ heard' \in Seq(Outcomes) /\ Len(heard') = Len(heard) + 1
      /\ heard'[Len(heard) + 1] = outcome
      /\ \A i \in 1..Len(heard) : heard'[i] = heard[i]
  BY <1>1, <1>2, AppendProperties
<1>5. TriedAgain <=> Len(heard) = 4
  BY <1>2, <1>3, GenerationsCounted DEF ViewsAsked
<1>7. CASE outcome = "no_image" /\ ~TriedAgain
  <2>1. Await("generate")
    BY <1>7 DEF GenerateFinale
  <2>2. FinaleChecked' /\ ViewsAsked(3)' /\ Supported'
    <3>1. DrawnViews(3)' = DrawnViews(3)
      BY <1>3, <1>4 DEF DrawnViews
    <3>2. ViewScenes' = ViewScenes
      BY <1>1 DEF ViewScenes, ViewScene
    <3>3. Shown' = Shown
      BY <1>1 DEF Shown
    <3>4. /\ \A i \in 1..Len(scenes') : scenes'[i] = ViewScene(Presets[i])'
          /\ \A i \in 1..3 : heard'[i] \in BlenderOutcomes
      BY <1>1, <1>3, <1>4 DEF ViewsAsked, ViewScene
    <3>5. Supported'
      BY <1>1, <1>3 DEF Supported
    <3> QED
      BY <1>1, <1>3, <3>1, <3>2, <3>3, <3>4, <3>5 DEF ViewsAsked, FinaleChecked
  <2>3. step' = "generate" /\ Len(heard') = 4 /\ heard'[4] = "no_image"
    <3>1. Len(heard) = 3
      BY <1>3, <1>5, <1>7
    <3> QED
      BY <1>4, <1>7, <2>1, <3>1 DEF Await
  <2>4. Underway'
    BY <2>2, <2>3 DEF Underway
  <2> QED
    BY <1>1, <1>2, <1>4, <2>1, <2>4, GoesOn DEF Await
<1>8. CASE ~(outcome = "no_image" /\ ~TriedAgain)
  <2>1. \/ outcome = "image" /\ Reply(Image)
        \/ outcome = "no_image" /\ Fail(NoImage)
        \/ outcome = "throws" /\ Fail(Unforeseen)
    <3>1. outcome = "image" => Reply(Image)
      BY DEF GenerateFinale
    <3>2. outcome = "throws" => Fail(Unforeseen)
      BY DEF GenerateFinale
    <3>3. outcome = "no_image" => Fail(NoImage)
      BY <1>8 DEF GenerateFinale
    <3> QED
      BY <3>1, <3>2, <3>3 DEF GeneratorOutcomes
  <2>2. answer'.image <=> outcome = "image"
    <3>1. CASE Reply(Image) /\ outcome = "image"
      BY <3>1, GoodAnswers DEF Reply
    <3>2. CASE outcome # "image"
      <4>1. PICK given \in {NoImage, Unforeseen} : answer' = AnswerTo(given)
        BY <2>1, <3>2 DEF Fail, Reply
      <4>2. given \in Errors
        BY <4>1, NoImageTyped, UnforeseenTyped
      <4>3. AnswerTo(given).image = FALSE
        BY <4>2, AnswerTyped
      <4> QED
        BY <3>2, <4>1, <4>3
    <3> QED
      BY <2>1, <3>1, <3>2
  <2>3. FinaleAsAsked'
    BY <1>1, <1>2, <1>3, <2>2, FinaleEnds
  <2>4. request.route = "catalog/render-finale"
    BY <1>1
  <2>5. answer' # None /\ Told' = Verdict(request.route, outcome)
    BY <2>1, <2>4, GenerationTold
  <2>6. outcome \in OutcomesOf(ServiceOf(request.route))
    BY <2>4, ServicesOfRoutes DEF OutcomesOf
  <2>7. FailuresNamed'
    <3>1. Hears(outcome)
      BY <1>1 DEF Hears
    <3> QED
      BY <1>1, <1>2, <1>3, <2>5, <2>6, <3>1, VerdictGiven
  <2> QED
    BY <1>1, <1>2, <1>4, <2>3, <2>5, <2>7, AnswerGiven
<1> QED
  BY <1>7, <1>8

-----------------------------------------------------------------------------
(* The process, requests coming in and answers going out.                  *)

LEMMA ReceiveStep ==
  ASSUME StudioInv, NEW r \in Requests, Receive(r)
  PROVE  StudioInv'
<1>1. /\ request' = r /\ r # None /\ answer = None
      /\ heard' = <<>> /\ scenes' = <<>> /\ contents' = <<>>
  BY StudioAssumption DEF Receive, StudioInv
<1>2. heard' \in Seq(Outcomes)
  BY <1>1, EmptySeq
<1>3. FinaleAsAsked'
  BY <1>1 DEF FinaleAsAsked
<1>4. CASE Refusal(r) = None
  <2>1. step' = r.route /\ answer' = None /\ (ServiceOf(r.route) # None => InOrder(r))
    BY <1>1, <1>4, RefusalTyped DEF Receive
  <2>2. Underway'
    BY <1>1, <2>1 DEF Underway
  <2>3. FailuresNamed'
    BY <2>1 DEF FailuresNamed
  <2> QED
    BY <1>1, <1>2, <1>3, <2>2, <2>3 DEF StudioInv
<1>5. CASE Refusal(r) # None
  <2>1. answer' = AnswerTo(Refusal(r)) /\ step' = None
    BY <1>5 DEF Receive
  <2>2. PICK error : error = Refusal(r)
    OBVIOUS
  <2>3. /\ error \in Errors
        /\ \/ error.status \in {400, 401, 403, 429}
           \/ error.status = 500 /\ (r.oversized \/ r.session = "deleted")
    BY <1>5, <2>2, RefusalTyped
  <2>4. Fail(error)
    BY <2>1, <2>2 DEF Fail, Reply
  <2>5. answer' # None /\ answer'.status = error.status
    BY <2>3, <2>4, FailureGiven
  <2>6. ~InOrder(r)
    BY <1>5, InOrderAdmitted
  <2>7. FailuresNamed'
    BY <1>1, <2>3, <2>5, <2>6 DEF FailuresNamed
  <2> QED
    BY <1>1, <1>2, <1>3, <2>5, <2>7 DEF StudioInv
<1> QED
  BY <1>4, <1>5

LEMMA FinishStep == ASSUME Finish PROVE StudioInv'
<1>1. /\ request' = None /\ step' = None /\ answer' = None
      /\ heard' = <<>> /\ scenes' = <<>> /\ contents' = <<>>
  BY DEF Finish
<1>2. heard' \in Seq(Outcomes)
  BY <1>1, EmptySeq
<1> QED
  BY <1>1, <1>2 DEF StudioInv, FailuresNamed, FinaleAsAsked, Answered

LEMMA StudioUnchanged ==
  ASSUME StudioInv, UNCHANGED <<request, step, scenes, contents, heard, answer>>,
         request # None => services' = services
  PROVE  StudioInv'
<1>1. CASE request = None
  BY <1>1 DEF StudioInv, FailuresNamed, FinaleAsAsked, Answered
<1>2. CASE request # None /\ answer = None
  <2>1. ViewScenes' = ViewScenes /\ Shown' = Shown
    BY DEF ViewScenes, ViewScene, Shown
  <2>2. \A n : DrawnViews(n)' = DrawnViews(n)
    BY DEF DrawnViews
  <2>3. \A n : ViewsAsked(n) => ViewsAsked(n)'
    BY <1>2, <2>1, <2>2 DEF ViewsAsked, ViewScene
  <2>4. Underway'
    BY <1>2, <2>3 DEF Underway, Supported, FinaleChecked, StudioInv
  <2> QED
    BY <1>2, <2>4, GoesOn DEF StudioInv
<1>3. CASE request # None /\ answer # None
  <2>1. DrawnViews(Len(Presets))' = DrawnViews(Len(Presets)) /\ Shown' = Shown
    BY DEF DrawnViews, Shown
  <2>2. FinaleAsAsked'
    BY <1>3, <2>1 DEF StudioInv, FinaleAsAsked, Answered
  <2>3. FailuresNamed'
    BY <1>3 DEF StudioInv, FailuresNamed
  <2> QED
    BY <1>3, <2>2, <2>3 DEF StudioInv
<1> QED
  BY <1>1, <1>2, <1>3

-----------------------------------------------------------------------------
(* Theorems.                                                               *)

\* StudioInv is inductive: it holds before any request.
LEMMA StudioStarts == StudioInit => StudioInv
<1>1. <<>> \in Seq(Outcomes)
  BY EmptySeq
<1> QED
  BY <1>1 DEF StudioInit, StudioInv, FailuresNamed, FinaleAsAsked, Answered

\* Every step of the process keeps it.
LEMMA StudioSteps == StudioInv /\ [StudioNext]_studioVars => StudioInv'
<1> SUFFICES ASSUME StudioInv, [StudioNext]_studioVars PROVE StudioInv'
  OBVIOUS
<1>1. CASE Boot \/ Redeploy
  BY <1>1, StudioUnchanged DEF Boot, Redeploy
<1>2. CASE \E r \in Requests : Receive(r)
  BY <1>2, ReceiveStep
<1>3. CASE Handlers
  BY <1>3, ShowSteps, ConfiguraStep, RenderSteps, PerspectiveStep, RenderFinaleStep, Render3dStep
     DEF Handlers
<1>4. CASE ServiceSteps
  BY <1>4, ReadAssetsStep, GenerateRenderStep, GenerateMaskStep, GenerateFinaleStep,
     AskViewStep, AnswerRender3dStep, CalibratedStep, DetectedStep DEF ServiceSteps
<1>5. CASE Finish
  BY <1>5, FinishStep
<1>6. CASE UNCHANGED studioVars
  BY <1>6, StudioUnchanged DEF studioVars
<1> QED
  BY <1>1, <1>2, <1>3, <1>4, <1>5, <1>6 DEF StudioNext

\* StudioInv always holds: what a handler waits for tells what it did so far.
THEOREM StudioInvariant == StudioSpec => []StudioInv
BY StudioStarts, StudioSteps, PTL DEF StudioSpec

\* FailuresNamed always holds: a page that needs a service is told by that
\* service's own code that it is missing or has failed, and of a success if and
\* only if there was one, and no service is called for a request that is not in
\* order (BundleController, RenderController, Scene3dController,
\* PerspectiveController, HttpExceptionFilter).
THEOREM FailuresAreNamed == StudioSpec => []FailuresNamed
<1>1. StudioInv => FailuresNamed
  BY DEF StudioInv
<1> QED
  BY <1>1, StudioInvariant, PTL

\* FinaleAsAsked always holds: a composite shows the views Blender drew of the
\* product asked for, and comes of the last of at most two generations.
THEOREM FinalesAreAsAsked == StudioSpec => []FinaleAsAsked
<1>1. StudioInv => FinaleAsAsked
  BY DEF StudioInv
<1> QED
  BY <1>1, StudioInvariant, PTL
=============================================================================
