------------------------------- MODULE ClientProofs ----------------------------
(***************************************************************************)
(* Proofs about the web client: OperatorBinding, for any accounts, policies*)
(* and gates, whoever holds their caps, and any number of polls;           *)
(* OperatorSessions, for any accounts and any number of attempts, copies   *)
(* of a request and disturbances; and WalletActions, for any accounts,     *)
(* hooks, bundles and flows.                                               *)
(***************************************************************************)
EXTENDS OperatorBinding, OperatorSessions, WalletActions, FiniteSetTheorems, TLAPS

USE AccountAssumption DEF AccountTypeOK

-------------------------------------------------------------------------------
\* A list of some policies is a sequence of them and of no others.
LEMMA ListOfSome ==
  ASSUME NEW S, S \subseteq Policies
  PROVE  /\ SetToSeq(S) \in Seq(Policies)
         /\ \A i \in DOMAIN SetToSeq(S) : SetToSeq(S)[i] \in S
<1> DEFINE n == Cardinality(S)
<1>1. IsFiniteSet(S)
  BY AuthorityAssumption, FS_Subset
<1>2. n \in Nat /\ ExistsBijection(1..n, S)
  BY <1>1, FS_CardinalityType
<1>3. PICK f \in [1..n -> S] : IsInjective(f)
  BY <1>2 DEF ExistsBijection, Bijection, Injection
<1>4. SetToSeq(S) = CHOOSE e \in [1..n -> S] : IsInjective(e)
  BY DEF SetToSeq
<1>5. SetToSeq(S) \in [1..n -> S]
  BY <1>3, <1>4
<1> HIDE DEF n
<1>6. SetToSeq(S) \in [1..n -> Policies]
  BY <1>5
<1>7. SetToSeq(S) \in Seq(Policies)
  BY <1>2, <1>6
<1>8. \A i \in DOMAIN SetToSeq(S) : SetToSeq(S)[i] \in S
  BY <1>5
<1>9. QED
  BY <1>7, <1>8

\* What an account has held it will always have held.
LEMMA HoldingsGrow ==
  ASSUME UNCHANGED ownerVars \/ CapMoves
  PROVE  \A a \in Accounts \cup {NoAccount} :
            /\ PoliciesOf(a) \subseteq PoliciesOf(a)'
            /\ \A place \in {"wallet", "character"} :
                  GatesOf(a, place) \subseteq GatesOf(a, place)'
<1>1. Known \subseteq Known'
  BY DEF Known, ownerVars, CapMoves
<1>2. QED
  BY <1>1 DEF PoliciesOf, GatesOf

LEMMA FirstPosition == 1 \in 1..Cardinality(Policies)
<1>1. Policies # {} /\ IsFiniteSet(Policies)
  BY AuthorityAssumption, BindingAssumption
<1>2. Cardinality(Policies) \in Nat /\ Cardinality(Policies) # 0
  BY <1>1, FS_CardinalityType, FS_EmptySet
<1>3. QED
  BY <1>2

LEMMA AnswerTyped ==
  ASSUME TypeOK, NEW p \in Policies
  PROVE  Answer(p) \in [status : Statuses, gate : Gates \cup {NoGate}]
BY DEF TypeOK, Answer, Statuses

\* What the waits of a panel are made of.
LEMMA WaitsTyped ==
  /\ NoWait \in Waits
  /\ \A s \in {"idle", "busy", "confirmed", "timeout", "error"} : Over(s) \in Waits
  /\ Refused \in Waits
<1>1. NoWait \in Waits
  BY BindingAssumption DEF NoWait, Waits
<1>2. \A s \in {"idle", "busy", "confirmed", "timeout", "error"} : Over(s) \in Waits
  BY <1>1 DEF Over, Waits
<1>3. Refused \in Waits
  BY <1>2 DEF Refused, Waits
<1>4. QED
  BY <1>1, <1>2, <1>3

LEMMA StepOfOver ==
  /\ NoWait.step # "busy" /\ Refused.step # "busy"
  /\ \A s \in {"confirmed", "timeout", "error"} : Over(s).step = s
BY DEF NoWait, Refused, Over

-------------------------------------------------------------------------------
(* What was found is about the connected account. *)

AuthorityTyped ==
  /\ account \in Accounts \cup {NoAccount} /\ switches \in 0..MaxSwitches
  /\ asked \subseteq Accounts /\ caps \in CapStates
  /\ probing \subseteq Accounts /\ auth \in Authorities

Found == AuthorityTyped /\ AuthorityIsTheAccounts

LEMMA Connects ==
  ASSUME NEW a \in Accounts \cup {NoAccount}, NEW s \in
           {"checking_character", "checking_gate_caps", "no_character", "query_failed"}
  PROVE  /\ Connected(a, s) \in Authorities
         /\ Connected(a, s).of = a
         /\ Connected(a, s).gates = {} /\ Connected(a, s).lent = {}
BY DEF Connected, NotConnected, Authorities

LEMMA LoadFinds ==
  ASSUME Found, NEW a \in Accounts \cup {NoAccount}, account' = a,
         switches' \in 0..MaxSwitches, Load(a)
  PROVE  Found'
<1>1. CASE a = NoAccount
  <2>1. NoCaps \in CapStates /\ NotConnected \in Authorities
    BY DEF NoCaps, CapStates, NotConnected, Authorities
  <2>2. /\ NoCaps.of = NoAccount /\ DOMAIN NoCaps.list = {}
        /\ NotConnected.of = NoAccount
        /\ NotConnected.gates = {} /\ NotConnected.lent = {}
    BY DEF NoCaps, NotConnected
  <2>3. caps' = NoCaps /\ auth' = NotConnected /\ asked' = asked /\ probing' = probing
    BY <1>1 DEF Load
  <2>4. AuthorityTyped'
    BY <2>1, <2>3 DEF Found, AuthorityTyped
  <2>5. AuthorityIsTheAccounts'
    BY <1>1, <2>2, <2>3 DEF AuthorityIsTheAccounts
  <2>6. QED
    BY <2>4, <2>5 DEF Found
<1>2. CASE a # NoAccount
  <2> DEFINE new == [of |-> a, status |-> "loading", list |-> <<>>]
  <2>1. a \in Accounts /\ new \in CapStates /\ new.of = a /\ DOMAIN new.list = {}
    BY <1>2 DEF CapStates
  <2>2. /\ caps' = new /\ asked' = asked \cup {a}
        /\ auth' = Connected(a, "checking_character") /\ probing' = probing \cup {a}
    BY <1>2 DEF Load
  <2> HIDE DEF new
  <2>3. AuthorityTyped'
    BY <2>1, <2>2, Connects DEF Found, AuthorityTyped
  <2>4. AuthorityIsTheAccounts'
    BY <2>1, <2>2, Connects DEF AuthorityIsTheAccounts
  <2>5. QED
    BY <2>3, <2>4 DEF Found
<1>3. QED
  BY <1>1, <1>2

\* What was found stays true of the account when caps change hands.
LEMMA FoundStutters ==
  ASSUME Found, UNCHANGED authorityVars, UNCHANGED ownerVars \/ CapMoves
  PROVE  Found'
<1>1. UNCHANGED <<account, switches, asked, caps, probing, auth>>
  BY DEF authorityVars
<1>2. AuthorityTyped'
  BY <1>1 DEF Found, AuthorityTyped
<1>3. /\ PoliciesOf(account) \subseteq PoliciesOf(account)'
      /\ GatesOf(account, "wallet") \subseteq GatesOf(account, "wallet")'
      /\ GatesOf(account, "character") \subseteq GatesOf(account, "character")'
  BY <1>1, HoldingsGrow DEF Found, AuthorityTyped
<1>4. AuthorityIsTheAccounts'
  BY <1>1, <1>3 DEF Found, AuthorityIsTheAccounts
<1>5. QED
  BY <1>2, <1>4 DEF Found

\* An answer keeps the list or replaces it by one about the same account.
LEMMA CapsArriveFinds ==
  ASSUME Found, NEW a \in Accounts, NEW ok \in BOOLEAN, CapsArrive(a, ok),
         UNCHANGED ownerVars
  PROVE  Found'
<1>1. PICK found \in CapsListed(a) :
        caps' = WriteCurrent(a, caps,
                    IF ok THEN [of |-> a, status |-> "listed", list |-> SetToSeq(found)]
                    ELSE [of |-> a, status |-> "failed", list |-> <<>>])
  BY DEF CapsArrive
<1> DEFINE new == IF ok THEN [of |-> a, status |-> "listed", list |-> SetToSeq(found)]
                  ELSE [of |-> a, status |-> "failed", list |-> <<>>]
<1>2. found \subseteq PoliciesOf(a) /\ PoliciesOf(a) \subseteq Policies
  BY DEF CapsListed, PoliciesOf
<1>3. /\ asked' = asked \ {a} /\ UNCHANGED <<account, switches, probing, auth>>
      /\ caps' = IF a = account THEN new ELSE caps
  BY <1>1 DEF CapsArrive, WriteCurrent
<1>4. /\ SetToSeq(found) \in Seq(Policies)
      /\ \A i \in DOMAIN SetToSeq(found) : SetToSeq(found)[i] \in PoliciesOf(a)
  BY <1>2, ListOfSome
<1>5. new \in CapStates /\ new.of = a
      /\ \A i \in DOMAIN new.list : new.list[i] \in PoliciesOf(a)
  BY <1>4 DEF CapStates
<1> HIDE DEF new
<1>6. AuthorityTyped'
  BY <1>3, <1>5 DEF Found, AuthorityTyped
<1>7. /\ caps'.of = account /\ auth' = auth /\ account' = account
      /\ \A i \in DOMAIN caps'.list : caps'.list[i] \in PoliciesOf(account)
  BY <1>3, <1>5 DEF Found, AuthorityIsTheAccounts
<1>8. AuthorityIsTheAccounts'
  BY <1>7 DEF Found, AuthorityIsTheAccounts, PoliciesOf, GatesOf, Known, ownerVars
<1>9. QED
  BY <1>6, <1>8 DEF Found

\* So do the answers of the discovery.
LEMMA AuthWritten ==
  ASSUME Found, NEW a \in Accounts, NEW new \in Authorities, new.of = a,
         new.gates \subseteq GatesOf(a, "wallet") \cup GatesOf(a, "character"),
         new.lent \subseteq GatesOf(a, "character"),
         auth' = WriteCurrent(a, auth, new), probing' \subseteq probing,
         UNCHANGED <<account, switches, asked, caps>>, UNCHANGED ownerVars
  PROVE  Found'
<1>1. auth' = IF a = account THEN new ELSE auth
  BY DEF WriteCurrent
<1>2. AuthorityTyped'
  BY <1>1 DEF Found, AuthorityTyped
<1>3. /\ auth'.of = account /\ caps' = caps /\ account' = account
      /\ auth'.gates \subseteq GatesOf(account, "wallet") \cup GatesOf(account, "character")
      /\ auth'.lent \subseteq GatesOf(account, "character")
  BY <1>1 DEF Found, AuthorityIsTheAccounts
<1>4. AuthorityIsTheAccounts'
  BY <1>3 DEF Found, AuthorityIsTheAccounts, PoliciesOf, GatesOf, Known, ownerVars
<1>5. QED
  BY <1>2, <1>4 DEF Found

LEMMA DiscoverFinds ==
  ASSUME Found, NEW a \in Accounts, Discover(a), UNCHANGED ownerVars
  PROVE  Found'
<1>1. CASE \E ok \in BOOLEAN : CapsArrive(a, ok)
  BY <1>1, CapsArriveFinds
<1>2. CASE \E read \in BOOLEAN : CharactersArrive(a, read)
  <2> DEFINE more == [Connected(a, "checking_gate_caps") EXCEPT !.character = TRUE]
             none == Connected(a, "no_character")
  <2>1. more \in Authorities /\ more.of = a /\ more.gates = {} /\ more.lent = {}
    BY Connects DEF Connected, NotConnected, Authorities
  <2>2. none \in Authorities /\ none.of = a /\ none.gates = {} /\ none.lent = {}
    BY Connects
  <2>3. /\ \/ auth' = WriteCurrent(a, auth, more)
           \/ auth' = WriteCurrent(a, auth, none)
        /\ probing' \subseteq probing /\ UNCHANGED <<account, switches, asked, caps>>
    BY <1>2 DEF CharactersArrive
  <2> HIDE DEF more, none
  <2>4. CASE auth' = WriteCurrent(a, auth, more)
    BY <2>1, <2>3, <2>4, AuthWritten
  <2>5. CASE auth' = WriteCurrent(a, auth, none)
    BY <2>2, <2>3, <2>5, AuthWritten
  <2>6. QED
    BY <2>3, <2>4, <2>5
<1>3. ASSUME NEW inWallet \in SUBSET Gates, NEW withCharacter \in SUBSET Gates,
             NEW read \in SUBSET Gates, GatesArrive(a, inWallet, withCharacter, read)
      PROVE  Found'
  <2> DEFINE new == [of |-> a, status |-> finalStatus(inWallet \cup withCharacter),
                     character |-> TRUE, gates |-> read, lent |-> read \cap withCharacter]
  <2>1. /\ inWallet \subseteq GatesOf(a, "wallet")
        /\ withCharacter \subseteq GatesOf(a, "character")
        /\ read \subseteq inWallet \cup withCharacter /\ probing' = probing \ {a}
        /\ auth' = WriteCurrent(a, auth, new)
        /\ UNCHANGED <<account, switches, asked, caps>>
    BY <1>3 DEF GatesArrive, OwnerCapsListed
  <2>2. /\ new \in Authorities /\ new.of = a
        /\ new.gates = read /\ new.lent = read \cap withCharacter
    BY DEF Authorities, finalStatus
  <2> HIDE DEF new
  <2>3. /\ new.gates \subseteq GatesOf(a, "wallet") \cup GatesOf(a, "character")
        /\ new.lent \subseteq GatesOf(a, "character")
    BY <2>1, <2>2
  <2>4. QED
    BY <2>1, <2>2, <2>3, AuthWritten
<1>4. CASE AuthorityFails(a)
  BY <1>4, Connects, AuthWritten DEF AuthorityFails
<1>5. QED
  BY <1>1, <1>2, <1>3, <1>4 DEF Discover

-------------------------------------------------------------------------------
(* The transaction of a panel. *)

OtherTyped ==
  /\ ownership \in Ownership /\ former \subseteq Ownership
  /\ bound \in [Policies -> Gates \cup {NoGate}] /\ extended \subseteq Gates
  /\ indexed \in [Policies -> Gates \cup {NoGate}] /\ active \subseteq Gates
  /\ changes \in 0..MaxChanges /\ panel \in Panels
  /\ index \in 1..Cardinality(Policies) /\ gate \in Gates \cup {NoGate}
  /\ seen \in [status : Statuses, gate : Gates \cup {NoGate}] \cup {Unread}
  /\ checks \subseteq Policies /\ wait \in Waits

\* A transaction is about a gate.
HasGate == wait.step = "busy" => wait.gate \in Gates

IInv == Found /\ OtherTyped /\ TargetsAreOwn /\ HasGate

LEMMA TypeParts == TypeOK <=> AuthorityTyped /\ OtherTyped
BY DEF TypeOK, AuthorityTyped, OtherTyped

LEMMA OpenedTyped == \A k \in Panels : Opened(k) \subseteq Policies
BY BindingAssumption DEF Opened

LEMMA InitInv == Init => IInv
<1> SUFFICES ASSUME Init PROVE IInv
  OBVIOUS
<1>1. AuthorityTyped
  BY AuthorityAssumption
     DEF Init, AuthorityInit, AuthorityTyped, NoCaps, CapStates, NotConnected, Authorities
<1>2. AuthorityIsTheAccounts
  BY DEF Init, AuthorityInit, AuthorityIsTheAccounts, NoCaps, NotConnected
<1>3. OtherTyped
  BY AuthorityAssumption, BindingAssumption, FirstPosition, WaitsTyped, OpenedTyped
     DEF Init, AuthorityInit, OtherTyped
<1>4. TargetsAreOwn
  BY StepOfOver DEF Init, TargetsAreOwn
<1>5. HasGate
  BY StepOfOver DEF Init, HasGate
<1>6. QED
  BY <1>1, <1>2, <1>3, <1>4, <1>5 DEF IInv, Found

LEMMA ChosenTyped ==
  ASSUME IInv
  PROVE  /\ Selected \subseteq Policies
         /\ \A i \in DOMAIN caps.list : caps.list[i] \in Policies
         /\ gate # NoGate => gate \in Gates
<1>1. caps.list \in Seq(Policies)
  BY DEF IInv, Found, AuthorityTyped, CapStates
<1>2. \A i \in DOMAIN caps.list : caps.list[i] \in Policies
  BY <1>1
<1>3. Selected \subseteq Policies
  BY <1>2, BindingAssumption DEF Selected
<1>4. QED
  BY <1>2, <1>3 DEF IInv, OtherTyped

\* What is sent is about the sender's own, for each of the buttons.
LEMMA SendInv ==
  ASSUME IInv, Send
  PROVE  IInv'
<1>1. PICK p \in Selected :
        wait' = [NoWait EXCEPT !.step = "busy", !.by = account, !.policy = p, !.gate = gate]
  BY DEF Send
<1>2. UNCHANGED <<authorityVars, worldVars, panel, selectionVars>>
  BY DEF Send
<1>3. /\ p \in Policies /\ gate \in Gates \cup {NoGate}
      /\ account \in Accounts \cup {NoAccount}
  BY ChosenTyped DEF IInv, OtherTyped, Found, AuthorityTyped
<1>4. wait' = [step |-> "busy", by |-> account, policy |-> p, gate |-> gate,
               refused |-> FALSE, left |-> 0]
  BY <1>1 DEF NoWait
<1>5. wait' \in Waits
  BY <1>3, <1>4, BindingAssumption DEF Waits
<1>6. OtherTyped'
  BY <1>2, <1>5 DEF IInv, OtherTyped, worldVars, ownerVars, selectionVars
<1>7. Found'
  BY <1>2, FoundStutters DEF IInv, worldVars
<1>8. wait'.policy = p /\ wait'.by = account /\ wait'.gate = gate
  BY <1>4
<1>9. AuthorityIsTheAccounts
  BY DEF IInv, Found
<1>10. p \in PoliciesOf(account)
  <2>1. CASE panel = "preflight"
    <3>1. Holds(account, Configured)
      BY <2>1 DEF Send, CanAttempt, CanBind, CanAuthorize, CanRetry
    <3>2. p = Configured
      BY <2>1, <1>1 DEF Selected
    <3>3. QED
      BY <3>1, <3>2, <1>9 DEF Holds, AuthorityIsTheAccounts
  <2>2. CASE panel # "preflight"
    <3>1. index \in DOMAIN caps.list /\ p = caps.list[index]
      BY <2>2, <1>1 DEF Selected
    <3>2. QED
      BY <3>1, <1>9 DEF AuthorityIsTheAccounts
  <2>3. QED
    BY <2>1, <2>2
<1>11. panel # "preflight" => gate \in auth.gates
  BY DEF Send, CanAttempt, CanBind, CanAuthorize, CanRetry
<1>12. /\ panel # "preflight" =>
             gate \in GatesOf(account, "wallet") \cup GatesOf(account, "character")
       /\ panel = "extend" => gate \in GatesOf(account, "character")
  <2>1. panel = "extend" => gate \in auth.lent
    BY DEF Send, CanAttempt, CanBind, CanAuthorize, CanRetry
  <2>2. QED
    BY <2>1, <1>9, <1>11 DEF AuthorityIsTheAccounts
<1>13. panel' = panel /\ ownership' = ownership /\ former' = former
  BY <1>2 DEF worldVars, ownerVars
<1>14. /\ PoliciesOf(account) = PoliciesOf(wait.by)'
       /\ GatesOf(account, "wallet") = GatesOf(wait.by, "wallet")'
       /\ GatesOf(account, "character") = GatesOf(wait.by, "character")'
  BY <1>8, <1>13 DEF PoliciesOf, GatesOf, Known
<1>15. TargetsAreOwn'
  BY <1>8, <1>10, <1>12, <1>13, <1>14 DEF TargetsAreOwn
<1>16. gate \in Gates
  <2>1. auth.gates \subseteq Gates
    BY DEF IInv, Found, AuthorityTyped, Authorities
  <2>2. CASE panel = "preflight"
    BY <2>2, <1>3 DEF Send, CanAttempt, CanBind, CanAuthorize, CanRetry
  <2>3. CASE panel # "preflight"
    BY <2>1, <2>3, <1>11
  <2>4. QED
    BY <2>2, <2>3
<1>17. HasGate'
  BY <1>8, <1>16 DEF HasGate
<1>18. QED
  BY <1>6, <1>7, <1>15, <1>17 DEF IInv

\* A transaction that runs or fails leaves no transaction on its way.
LEMMA TransactionInv ==
  ASSUME IInv, Fails \/ \E answered \in BOOLEAN : Runs(answered)
  PROVE  IInv'
<1>1. wait \in Waits
  BY DEF IInv, OtherTyped
<1>2. Submitted \in Waits /\ Submitted.step # "busy"
  <2> DEFINE sent == [NoWait EXCEPT !.step = "submitted"]
             about == [sent EXCEPT !.policy = wait.policy]
  <2>1. sent \in Waits /\ sent.step = "submitted"
    BY WaitsTyped DEF Waits
  <2>2. wait.policy \in Policies /\ Attempts \in 0..Attempts
    BY <1>1, BindingAssumption DEF Waits
  <2>3. Submitted = [about EXCEPT !.left = Attempts]
    BY DEF Submitted
  <2> HIDE DEF sent
  <2>4. about \in Waits /\ about.step = "submitted"
    BY <2>1, <2>2 DEF Waits
  <2> HIDE DEF about
  <2>5. QED
    BY <2>2, <2>3, <2>4 DEF Waits
<1>3. wait' \in Waits /\ wait'.step # "busy"
  BY <1>2, WaitsTyped, StepOfOver DEF Fails, Runs
<1>4. UNCHANGED <<authorityVars, ownerVars, indexed, active, changes, panel,
                  selectionVars>>
  BY DEF Fails, Runs, worldVars
<1>5. Found'
  BY <1>4, FoundStutters DEF IInv
<1>6. bound' \in [Policies -> Gates \cup {NoGate}] /\ extended' \subseteq Gates
  <2>1. CASE Fails
    BY <2>1 DEF Fails, IInv, OtherTyped, worldVars, ownerVars
  <2>2. ASSUME NEW answered \in BOOLEAN, Runs(answered)
        PROVE  bound' \in [Policies -> Gates \cup {NoGate}] /\ extended' \subseteq Gates
    <3>1. wait.gate \in Gates
      BY <2>2 DEF IInv, HasGate, Runs
    <3>2. CASE panel = "extend"
      <4>1. wait.step = "busy" /\ extended' = extended \cup {wait.gate} /\ bound' = bound
        BY <2>2, <3>2 DEF Runs
      <4>2. QED
        BY <4>1, <3>1 DEF IInv, OtherTyped
    <3>3. CASE panel # "extend"
      <4>1. /\ bound' = [bound EXCEPT ![wait.policy] = wait.gate]
            /\ extended' = extended
        BY <2>2, <3>3 DEF Runs
      <4>2. QED
        BY <4>1, <3>1 DEF IInv, OtherTyped
    <3>4. QED
      BY <3>2, <3>3
  <2>3. QED
    BY <2>1, <2>2
<1>7. OtherTyped'
  BY <1>3, <1>4, <1>6 DEF IInv, OtherTyped, ownerVars, selectionVars
<1>8. TargetsAreOwn'
  BY <1>3 DEF TargetsAreOwn
<1>9. QED
  BY <1>3, <1>5, <1>7, <1>8 DEF IInv, HasGate

-------------------------------------------------------------------------------
\* The panel polls, or the guide is dismissed.
LEMMA PollInv ==
  ASSUME IInv, NEW ok \in BOOLEAN, Poll(ok)
  PROVE  IInv'
<1>1. wait \in Waits /\ wait.step = "submitted"
  BY DEF IInv, OtherTyped, Poll
<1>2. NextAttempt \in Waits /\ NextAttempt.step # "busy"
  <2>1. CASE wait.left > 1
    <3>1. NextAttempt = [wait EXCEPT !.left = wait.left - 1]
      BY <2>1 DEF NextAttempt
    <3>2. wait.left - 1 \in 0..Attempts
      BY <1>1, <2>1, BindingAssumption DEF Waits
    <3>3. QED
      BY <1>1, <3>1, <3>2 DEF Waits
  <2>2. CASE ~(wait.left > 1)
    BY <2>2, WaitsTyped, StepOfOver DEF NextAttempt
  <2>3. QED
    BY <2>1, <2>2
<1>3. wait' \in Waits /\ wait'.step # "busy"
  BY <1>2, WaitsTyped, StepOfOver DEF Poll
<1>4. seen' \in [status : Statuses, gate : Gates \cup {NoGate}] \cup {Unread}
  <2>1. Answer(wait.policy) \in [status : Statuses, gate : Gates \cup {NoGate}]
    BY <1>1, AnswerTyped, TypeParts DEF IInv, Found, Waits
  <2>2. seen' = Answer(wait.policy) \/ seen' = seen
    BY DEF Poll
  <2>3. QED
    BY <2>1, <2>2 DEF IInv, OtherTyped
<1>5. UNCHANGED <<authorityVars, worldVars, panel, index, gate, checks>>
  BY DEF Poll
<1>6. Found'
  BY <1>5, FoundStutters DEF IInv, worldVars
<1>7. OtherTyped'
  BY <1>3, <1>4, <1>5 DEF IInv, OtherTyped, worldVars, ownerVars
<1>8. QED
  BY <1>3, <1>6, <1>7 DEF IInv, TargetsAreOwn, HasGate

\* A step that leaves the transaction, the panel and the authority alone.
LEMMA ElsewhereInv ==
  ASSUME IInv, OtherTyped', UNCHANGED <<authorityVars, panel, wait>>,
         UNCHANGED ownerVars \/ CapMoves
  PROVE  IInv'
<1>1. Found'
  BY FoundStutters DEF IInv
<1>2. wait.by \in Accounts \cup {NoAccount}
  BY DEF IInv, OtherTyped, Waits
<1>3. /\ PoliciesOf(wait.by) \subseteq PoliciesOf(wait.by)'
      /\ GatesOf(wait.by, "wallet") \subseteq GatesOf(wait.by, "wallet")'
      /\ GatesOf(wait.by, "character") \subseteq GatesOf(wait.by, "character")'
  BY <1>2, HoldingsGrow
<1>4. TargetsAreOwn'
  BY <1>3 DEF IInv, TargetsAreOwn
<1>5. QED
  BY <1>1, <1>4 DEF IInv, HasGate

LEMMA OwnershipTyped ==
  ASSUME ownership \in Ownership, former \subseteq Ownership,
         UNCHANGED ownerVars \/ CapMoves
  PROVE  ownership' \in Ownership /\ former' \subseteq Ownership
<1>1. CASE UNCHANGED ownerVars
  BY <1>1 DEF ownerVars
<1>2. CASE CapMoves
  <2>1. former' = former \cup {ownership}
    BY <1>2 DEF CapMoves
  <2>2. ASSUME NEW x \in Accounts \cup {NoAccount}, NEW p \in Policies,
               ownership' = [ownership EXCEPT !.cap[p] = x]
        PROVE  ownership' \in Ownership
    BY <2>2 DEF Ownership
  <2>3. ASSUME NEW x \in Accounts \cup {NoAccount}, NEW g \in Gates,
               NEW place \in {"wallet", "character"},
               ownership' = [ownership EXCEPT !.gate[g] = x, !.place[g] = place]
        PROVE  ownership' \in Ownership
    BY <2>3 DEF Ownership
  <2>4. QED
    BY <1>2, <2>1, <2>2, <2>3 DEF CapMoves
<1>3. QED
  BY <1>1, <1>2

LEMMA WorldInv ==
  ASSUME IInv, ChangedElsewhere \/ IndexBindings \/ IndexExtensions
  PROVE  IInv'
<1>1. CASE ChangedElsewhere
  <2>1. bound' \in [Policies -> Gates \cup {NoGate}] /\ extended' \subseteq Gates
    BY <1>1 DEF ChangedElsewhere, IInv, OtherTyped
  <2>2. changes' \in 0..MaxChanges
    BY <1>1, BindingAssumption DEF ChangedElsewhere, IInv, OtherTyped
  <2>3. UNCHANGED ownerVars \/ CapMoves
    BY <1>1 DEF ChangedElsewhere
  <2>4. ownership' \in Ownership /\ former' \subseteq Ownership
    BY <2>3, OwnershipTyped DEF IInv, OtherTyped
  <2>5. OtherTyped'
    BY <1>1, <2>1, <2>2, <2>4 DEF ChangedElsewhere, IInv, OtherTyped, selectionVars
  <2>6. QED
    BY <1>1, <2>3, <2>5, ElsewhereInv DEF ChangedElsewhere
<1>2. CASE IndexBindings
  <2>1. OtherTyped'
    BY <1>2 DEF IndexBindings, IInv, OtherTyped, ownerVars, selectionVars
  <2>2. QED
    BY <1>2, <2>1, ElsewhereInv DEF IndexBindings
<1>3. CASE IndexExtensions
  <2>1. OtherTyped'
    BY <1>3 DEF IndexExtensions, IInv, OtherTyped, ownerVars, selectionVars
  <2>2. QED
    BY <1>3, <2>1, ElsewhereInv DEF IndexExtensions
<1>4. QED
  BY <1>1, <1>2, <1>3

LEMMA SelectInv ==
  ASSUME IInv, Select \/ \E p \in Policies, ok \in BOOLEAN : CheckArrives(p, ok)
  PROVE  IInv'
<1>1. ASSUME NEW i \in 1..Cardinality(Policies), SelectPolicy(i)
      PROVE  IInv'
  <2>1. OtherTyped'
    BY <1>1, ChosenTyped DEF SelectPolicy, IInv, OtherTyped, worldVars, ownerVars
  <2>2. QED
    BY <1>1, <2>1, ElsewhereInv DEF SelectPolicy, worldVars
<1>2. ASSUME NEW g \in Gates, SelectGate(g)
      PROVE  IInv'
  <2>1. OtherTyped'
    BY <1>2 DEF SelectGate, IInv, OtherTyped, worldVars, ownerVars
  <2>2. QED
    BY <1>2, <2>1, ElsewhereInv DEF SelectGate, worldVars
<1>3. ASSUME NEW p \in Policies, NEW ok \in BOOLEAN, CheckArrives(p, ok)
      PROVE  IInv'
  <2>1. Answer(p) \in [status : Statuses, gate : Gates \cup {NoGate}]
    BY AnswerTyped, TypeParts DEF IInv, Found
  <2>2. gate' \in Gates \cup {NoGate}
    BY <1>3 DEF CheckArrives, IInv, OtherTyped
  <2>3. OtherTyped'
    BY <1>3, <2>1, <2>2 DEF CheckArrives, IInv, OtherTyped, worldVars, ownerVars
  <2>4. QED
    BY <1>3, <2>3, ElsewhereInv DEF CheckArrives, worldVars
<1>4. QED
  BY <1>1, <1>2, <1>3 DEF Select

LEMMA ReopenInv ==
  ASSUME IInv, Reopen
  PROVE  IInv'
<1>1. account' = account /\ Load(account) /\ wait' = NoWait
  BY DEF Reopen
<1>2. account \in Accounts \cup {NoAccount} /\ switches' \in 0..MaxSwitches
  BY AuthorityAssumption DEF Reopen, IInv, Found, AuthorityTyped
<1>3. Found'
  BY <1>1, <1>2, LoadFinds DEF IInv
<1>4. OtherTyped'
  BY FirstPosition, WaitsTyped, OpenedTyped DEF Reopen, IInv, OtherTyped, worldVars, ownerVars
<1>5. QED
  BY <1>1, <1>3, <1>4, StepOfOver DEF IInv, TargetsAreOwn, HasGate

LEMMA DiscoveryInv ==
  ASSUME IInv, Discovery
  PROVE  IInv'
<1>1. UNCHANGED <<worldVars, panel, selectionVars, wait>>
  BY DEF Discovery
<1>2. ASSUME NEW a \in Accounts \cup {NoAccount}, Connect(a)
      PROVE  Found'
  <2>1. account' = a /\ Load(a)
    BY <1>2 DEF Connect
  <2>2. switches' \in 0..MaxSwitches
    BY <1>2, AuthorityAssumption DEF Connect, IInv, Found, AuthorityTyped
  <2>3. QED
    BY <2>1, <2>2, LoadFinds DEF IInv
<1>3. Found'
  BY <1>1, <1>2, DiscoverFinds DEF Discovery, IInv, worldVars
<1>4. OtherTyped'
  BY <1>1 DEF IInv, OtherTyped, worldVars, ownerVars, selectionVars
<1>5. TargetsAreOwn'
  BY <1>1 DEF IInv, TargetsAreOwn, PoliciesOf, GatesOf, Known, worldVars, ownerVars
<1>6. QED
  BY <1>1, <1>3, <1>4, <1>5 DEF IInv, HasGate

LEMMA NextInv == IInv /\ [Next]_vars => IInv'
<1> SUFFICES ASSUME IInv, [Next]_vars PROVE IInv'
  OBVIOUS
<1>1. CASE Discovery
  BY <1>1, DiscoveryInv
<1>2. CASE ChangedElsewhere \/ IndexBindings \/ IndexExtensions
  BY <1>2, WorldInv
<1>3. CASE Select \/ \E p \in Policies, ok \in BOOLEAN : CheckArrives(p, ok)
  BY <1>3, SelectInv
<1>4. CASE Reopen
  BY <1>4, ReopenInv
<1>5. CASE Send
  BY <1>5, SendInv
<1>6. CASE Fails \/ \E answered \in BOOLEAN : Runs(answered)
  BY <1>6, TransactionInv
<1>7. CASE \E ok \in BOOLEAN : Poll(ok)
  BY <1>7, PollInv
<1>8. CASE Dismiss
  <2>1. OtherTyped'
    BY <1>8, WaitsTyped DEF Dismiss, IInv, OtherTyped, worldVars, ownerVars, selectionVars
  <2>2. Found'
    BY <1>8, FoundStutters DEF Dismiss, IInv, worldVars
  <2>3. wait'.step # "busy"
    BY <1>8, StepOfOver DEF Dismiss
  <2>4. QED
    BY <2>1, <2>2, <2>3 DEF IInv, TargetsAreOwn, HasGate
<1>9. CASE UNCHANGED vars
  <2>1. UNCHANGED <<authorityVars, worldVars, panel, selectionVars, wait>>
    BY <1>9 DEF vars
  <2>2. OtherTyped'
    BY <2>1 DEF IInv, OtherTyped, worldVars, ownerVars, selectionVars
  <2>3. QED
    BY <2>1, <2>2, ElsewhereInv DEF worldVars
<1>10. QED
  BY <1>1, <1>2, <1>3, <1>4, <1>5, <1>6, <1>7, <1>8, <1>9 DEF Next

LEMMA Invariant == Spec => []IInv
BY InitInv, NextInv, PTL DEF Spec

-------------------------------------------------------------------------------
\* Every variable of the page, the chain and the indexer has its type: no
\* transaction authorises the extension on a gate that is none.
THEOREM PanelsTyped == Spec => []TypeOK
<1>1. IInv => TypeOK
  BY TypeParts DEF IInv, Found
<1>2. QED
  BY <1>1, Invariant, PTL

\* The page shows caps and gates the connected account holds or has held only, in
\* whatever order the answers of earlier accounts arrive and whatever changes
\* hands meanwhile (useOperatorGatePolicies, useOperatorGateAuthority).
THEOREM AuthorityShownIsOwn == Spec => []AuthorityIsTheAccounts
<1>1. IInv => AuthorityIsTheAccounts
  BY DEF IInv, Found
<1>2. QED
  BY <1>1, Invariant, PTL

\* A transaction on its way is about a policy its sender holds or has held and,
\* but for the preflight panel, about such a gate, whatever the wallet and the
\* holders of the caps do meanwhile.
THEOREM TransactionsAreOwn == Spec => []TargetsAreOwn
<1>1. IInv => TargetsAreOwn
  BY DEF IInv
<1>2. QED
  BY <1>1, Invariant, PTL

-------------------------------------------------------------------------------
(* The session of the operator                                             *)

AttemptStates == [phase : Phases, by : Accounts \cup {NoAccount},
                  signer : Accounts \cup {NoAccount}, left : BOOLEAN]

LEMMA PhaseMoves ==
  ASSUME SessionTypeOK, NEW k \in Ids, NEW p \in Phases
  PROVE  [attempt EXCEPT ![k].phase = p] \in [Ids -> AttemptStates]
BY DEF SessionTypeOK, AttemptStates

LEMMA SignerAsked ==
  ASSUME SessionTypeOK, NEW k \in Ids, NEW p \in Phases, NEW a \in Accounts \cup {NoAccount}
  PROVE  [attempt EXCEPT ![k].phase = p, ![k].signer = a] \in [Ids -> AttemptStates]
BY DEF SessionTypeOK, AttemptStates

LEMMA SessionTypeInit == SessionInit => SessionTypeOK
BY SessionAssumption DEF SessionInit, SessionTypeOK, Ids, NoAttempt, Phases

LEMMA BeginTyped ==
  ASSUME SessionTypeOK, NEW k \in Ids, NEW a \in AttemptStates, Begin(k, a)
  PROVE  attempt' \in [Ids -> AttemptStates]
BY DEF SessionTypeOK, AttemptStates, Begin

LEMMA CaughtTyped ==
  ASSUME SessionTypeOK, NEW k \in Ids, Caught(k)
  PROVE  /\ attempt' \in [Ids -> AttemptStates]
         /\ session' \in 0..MaxAttempts /\ token' \in 0..MaxAttempts
         /\ stored' \in 0..MaxAttempts
         /\ status' \in {"idle", "signing", "active", "error"}
<1>1. attempt' \in [Ids -> AttemptStates]
  BY PhaseMoves DEF Caught, Phases
<1>2. QED
  BY <1>1, SessionAssumption DEF SessionTypeOK, Caught, Forget, signInVars

LEMMA SessionTypeStep == SessionTypeOK /\ [SessionNext]_sessionVars => SessionTypeOK'
<1> SUFFICES ASSUME SessionTypeOK, [SessionNext]_sessionVars PROVE SessionTypeOK'
  OBVIOUS
<1> USE SessionAssumption
<1>1. CASE Sign
  <2>1. Asking \in AttemptStates
    BY DEF Asking, NoAttempt, AttemptStates, Phases, SessionTypeOK
  <2>2. attempt' \in [Ids -> AttemptStates]
    BY <1>1, <2>1, BeginTyped DEF Sign
  <2>3. QED
    BY <1>1, <2>2 DEF Sign, SessionTypeOK, AttemptStates, apiVars
<1>2. CASE SignAgain
  <2>1. Asking \in AttemptStates
    BY DEF Asking, NoAttempt, AttemptStates, Phases, SessionTypeOK
  <2>2. attempt' \in [Ids -> AttemptStates]
    BY <1>2, <2>1, BeginTyped DEF SignAgain, SessionTypeOK, AttemptStates
  <2>3. QED
    BY <1>2, <2>2 DEF SignAgain, Forget, SessionTypeOK, AttemptStates, apiVars
<1>3. CASE Lock
  BY <1>3 DEF Lock, ClearSession, Forget, SessionTypeOK, apiVars
<1>4. ASSUME NEW k \in Ids, Attempt(k)
      PROVE  SessionTypeOK'
  <2>1. CASE NonceArrives(k)
    <3>1. CASE account = NoAccount
      BY <2>1, <3>1, CaughtTyped DEF NonceArrives, SessionTypeOK, AttemptStates
    <3>2. CASE account # NoAccount
      <4>1. account \in Accounts \cup {NoAccount} /\ "signing" \in Phases
        BY DEF SessionTypeOK, Phases
      <4>2. attempt' = [attempt EXCEPT ![k].phase = "signing", ![k].signer = account]
        BY <2>1, <3>2 DEF NonceArrives
      <4>3. attempt' \in [Ids -> AttemptStates]
        BY <4>1, <4>2, SignerAsked
      <4>4. QED
        BY <2>1, <3>2, <4>3 DEF NonceArrives, SessionTypeOK, AttemptStates, signInVars
    <3>3. QED
      BY <3>1, <3>2
  <2>2. CASE NonceFails(k) \/ Rejected(k) \/ CreateFails(k)
    BY <2>2, CaughtTyped
       DEF NonceFails, Rejected, CreateFails, Failed, SessionTypeOK, AttemptStates, apiVars
  <2>3. CASE \E n \in 1..MaxCopies : Signed(k, n)
    <3>1. attempt' \in [Ids -> AttemptStates]
      <4>1. "creating" \in Phases
        BY DEF Phases
      <4>2. attempt' = [attempt EXCEPT ![k].phase = "creating"]
        BY <2>3 DEF Signed
      <4>3. QED
        BY <4>1, <4>2, PhaseMoves
    <3>2. QED
      BY <2>3, <3>1 DEF Signed, SessionTypeOK, AttemptStates, signInVars
  <2>4. CASE Consume(k)
    BY <2>4 DEF Consume, SessionTypeOK, signInVars
  <2>5. CASE Refuse(k)
    BY <2>5 DEF Refuse, SessionTypeOK, signInVars
  <2>6. CASE \E answered \in BOOLEAN : Create(k, answered)
    <3>1. attempt' \in [Ids -> AttemptStates]
      <4>1. "over" \in Phases
        BY DEF Phases
      <4>2. [attempt EXCEPT ![k].phase = "over"] \in [Ids -> AttemptStates]
        BY <4>1, PhaseMoves
      <4>3. attempt \in [Ids -> AttemptStates]
        BY DEF SessionTypeOK, AttemptStates
      <4>4. attempt' = attempt \/ attempt' = [attempt EXCEPT ![k].phase = "over"]
        BY <2>6 DEF Create
      <4>5. QED
        BY <4>2, <4>3, <4>4
    <3>2. /\ session' \in 0..MaxAttempts /\ token' \in 0..MaxAttempts
          /\ stored' \in 0..MaxAttempts
          /\ status' \in {"idle", "signing", "active", "error"}
      BY <2>6 DEF Create, ShowSession, ClearSession, Forget, SessionTypeOK, signInVars, Ids
    <3>3. QED
      <4>1. /\ checking' \in [Ids -> Nat] /\ made' \in [Ids -> Nat]
            /\ sessions' \subseteq Ids /\ expired' \subseteq Ids
        BY <2>6 DEF Create, SessionTypeOK
      <4>2. UNCHANGED <<account, nonces, copies, disturbed>>
        BY <2>6 DEF Create
      <4>3. QED
        BY <3>1, <3>2, <4>1, <4>2 DEF SessionTypeOK, AttemptStates
  <2>7. CASE Expire(k)
    BY <2>7 DEF Expire, Disturb, SessionTypeOK, signInVars, apiVars
  <2>8. QED
    BY <1>4, <2>1, <2>2, <2>3, <2>4, <2>5, <2>6, <2>7 DEF Attempt
<1>5. ASSUME NEW a \in Accounts \cup {NoAccount}, SwitchWallet(a)
      PROVE  SessionTypeOK'
  BY <1>5 DEF SwitchWallet, Disturb, ClearSession, Forget, SessionTypeOK, signInVars, apiVars
<1>6. CASE Purge
  BY <1>6 DEF Purge, SessionTypeOK, signInVars
<1>7. CASE Restart
  BY <1>7 DEF Restart, Disturb, SessionTypeOK, signInVars
<1>8. CASE Reload
  <2>1. attempt' \in [Ids -> AttemptStates]
    BY <1>8 DEF Reload, SessionTypeOK, AttemptStates, Phases
  <2>2. /\ session' \in 0..MaxAttempts /\ token' \in 0..MaxAttempts
        /\ stored' \in 0..MaxAttempts
        /\ status' \in {"idle", "signing", "active", "error"}
    BY <1>8 DEF Reload, ClearSession, Forget, SessionTypeOK
  <2>3. QED
    BY <1>8, <2>1, <2>2 DEF Reload, Disturb, SessionTypeOK, AttemptStates, apiVars
<1>9. ASSUME NEW a \in Accounts, AnotherTab(a)
      PROVE  SessionTypeOK'
  <2>1. [phase |-> "over", by |-> a, signer |-> a, left |-> TRUE] \in AttemptStates
    BY DEF AttemptStates, Phases
  <2>2. attempt' \in [Ids -> AttemptStates]
    BY <1>9, <2>1, BeginTyped DEF AnotherTab, SessionTypeOK, AttemptStates
  <2>3. /\ made' \in [Ids -> Nat] /\ sessions' \subseteq Ids /\ stored' \in 0..MaxAttempts
    <3>1. CASE stored' = 0 /\ UNCHANGED <<attempt, made, sessions>>
      BY <3>1 DEF SessionTypeOK
    <3>2. CASE \E k \in Ids : /\ made' = [made EXCEPT ![k] = 1]
                             /\ sessions' = sessions \cup {k} /\ stored' = k
      BY <3>2 DEF SessionTypeOK, Ids
    <3>3. QED
      BY <1>9, <3>1, <3>2 DEF AnotherTab
  <2>4. QED
    BY <1>9, <2>2, <2>3 DEF AnotherTab, Disturb, SessionTypeOK, AttemptStates
<1>10. CASE UNCHANGED sessionVars
  BY <1>10 DEF sessionVars, signInVars, apiVars, SessionTypeOK
<1>11. QED
  BY <1>1, <1>2, <1>3, <1>4, <1>5, <1>6, <1>7, <1>8, <1>9, <1>10 DEF SessionNext

\* The state of the page and of the API keeps its types, for any number of
\* attempts, deliveries and disturbances.
THEOREM SessionsTyped == SessionSpec => []SessionTypeOK
BY SessionTypeInit, SessionTypeStep, PTL DEF SessionSpec

-----------------------------------------------------------------------------
LEMMA TokenStep == SessionTypeOK /\ TokenIsTheSessions /\ [SessionNext]_sessionVars => TokenIsTheSessions'
<1> SUFFICES ASSUME SessionTypeOK, TokenIsTheSessions, [SessionNext]_sessionVars PROVE TokenIsTheSessions'
  OBVIOUS
<1> USE DEF TokenIsTheSessions
<1>1. CASE Sign \/ SignAgain \/ Lock
  BY <1>1 DEF Sign, SignAgain, Lock, ClearSession, Forget
<1>2. ASSUME NEW k \in Ids, Attempt(k)
      PROVE  TokenIsTheSessions'
  <2>1. ASSUME Caught(k)
        PROVE  TokenIsTheSessions'
    BY <2>1 DEF Caught, Forget, signInVars
  <2>2. CASE NonceArrives(k)
    BY <2>1, <2>2 DEF NonceArrives, signInVars
  <2>3. CASE NonceFails(k) \/ Rejected(k) \/ CreateFails(k)
    BY <2>1, <2>3 DEF NonceFails, Rejected, CreateFails, Failed
  <2>4. CASE (\E n \in 1..MaxCopies : Signed(k, n)) \/ Consume(k) \/ Refuse(k) \/ Expire(k)
    BY <2>4 DEF Signed, Consume, Refuse, Expire, signInVars
  <2>5. CASE \E answered \in BOOLEAN : Create(k, answered)
    BY <2>5, SessionAssumption DEF Create, ShowSession, ClearSession, Forget, signInVars, Ids
  <2>6. QED
    BY <1>2, <2>2, <2>3, <2>4, <2>5 DEF Attempt
<1>3. CASE \E a \in Accounts \cup {NoAccount} : SwitchWallet(a)
  BY <1>3 DEF SwitchWallet, ClearSession, Forget, signInVars
<1>4. CASE Purge \/ Restart \/ UNCHANGED sessionVars
  BY <1>4 DEF Purge, Restart, sessionVars, signInVars
<1>5. CASE Reload
  BY <1>5 DEF Reload, ClearSession, Forget
<1>6. CASE \E a \in Accounts : AnotherTab(a)
  BY <1>6 DEF AnotherTab
<1>7. QED
  BY <1>1, <1>2, <1>3, <1>4, <1>5, <1>6 DEF SessionNext

\* The token the page sends is that of the session it shows, through switches
\* of the wallet, reloads and attempts that end in any order.
THEOREM TokenFollowsSession == SessionSpec => []TokenIsTheSessions
<1>1. SessionInit => TokenIsTheSessions
  BY DEF SessionInit, TokenIsTheSessions
<1>2. QED
  BY <1>1, SessionTypeInit, SessionTypeStep, TokenStep, PTL DEF SessionSpec

-----------------------------------------------------------------------------
(* What a request to create a session leaves: the attempt it was made in has *)
(* posted it, and the nonce it carries is in one place only: in the store, *)
(* in a check that is awaited or in a session.                             *)

Posted(k) == attempt[k].phase \in {"creating", "over"}

NonceInOnePlace ==
  \A k \in Ids :
    /\ copies[k] > 0 \/ checking[k] > 0 \/ made[k] > 0 => Posted(k)
    /\ made[k] + checking[k] <= 1
    /\ k \in nonces => /\ made[k] = 0 /\ checking[k] = 0
                       /\ attempt[k].phase \notin {"none", "nonce"}

LEMMA PostedStays ==
  ASSUME SessionTypeOK, [SessionNext]_sessionVars, NEW k \in Ids, Posted(k)
  PROVE  /\ Posted(k)'
         /\ attempt'[k].by = attempt[k].by /\ attempt'[k].signer = attempt[k].signer
<1> DEFINE Same == /\ Posted(k)'
                   /\ attempt'[k].by = attempt[k].by
                   /\ attempt'[k].signer = attempt[k].signer
<1> USE DEF Posted
<1>0. attempt \in [Ids -> AttemptStates]
  BY DEF SessionTypeOK, AttemptStates
<1>1. ASSUME NEW j \in Ids, NEW a, Begin(j, a)
      PROVE  Same
  BY <1>0, <1>1 DEF Begin
<1>2. ASSUME UNCHANGED attempt
      PROVE  Same
  BY <1>2
<1>3. ASSUME NEW j \in Ids, Attempt(j)
      PROVE  Same
  <2>1. ASSUME Caught(j)
        PROVE  Same
    BY <1>0, <2>1 DEF Caught, AttemptStates
  <2>2. CASE NonceArrives(j)
    <3>1. CASE j = k
      BY <2>2, <3>1 DEF NonceArrives
    <3>2. CASE j # k /\ account # NoAccount
      BY <1>0, <2>2, <3>2 DEF NonceArrives, AttemptStates
    <3>3. QED
      BY <2>1, <2>2, <3>1, <3>2 DEF NonceArrives
  <2>3. CASE NonceFails(j) \/ Rejected(j) \/ CreateFails(j)
    BY <2>1, <2>3 DEF NonceFails, Rejected, CreateFails, Failed
  <2>4. CASE \E n \in 1..MaxCopies : Signed(j, n)
    BY <1>0, <2>4 DEF Signed, AttemptStates
  <2>5. CASE Consume(j) \/ Refuse(j) \/ Expire(j)
    BY <1>2, <2>5 DEF Consume, Refuse, Expire
  <2>6. CASE \E answered \in BOOLEAN : Create(j, answered)
    BY <1>0, <2>6 DEF Create, AttemptStates
  <2>7. QED
    BY <1>3, <2>2, <2>3, <2>4, <2>5, <2>6 DEF Attempt
<1>4. CASE Sign \/ SignAgain
  BY <1>1, <1>2, <1>4 DEF Sign, SignAgain
<1>5. CASE Lock \/ Purge \/ Restart \/ UNCHANGED sessionVars \/ \E a \in Accounts \cup {NoAccount} : SwitchWallet(a)
  BY <1>2, <1>5 DEF Lock, Purge, Restart, sessionVars, SwitchWallet
<1>6. CASE Reload
  BY <1>0, <1>6 DEF Reload, AttemptStates
<1>7. CASE \E a \in Accounts : AnotherTab(a)
  BY <1>1, <1>2, <1>7 DEF AnotherTab
<1>8. QED
  BY <1>3, <1>4, <1>5, <1>6, <1>7 DEF SessionNext

LEMMA NonceStep == SessionTypeOK /\ NonceInOnePlace /\ [SessionNext]_sessionVars => NonceInOnePlace'
<1> SUFFICES ASSUME SessionTypeOK, NonceInOnePlace, [SessionNext]_sessionVars, NEW j \in Ids
             PROVE  /\ copies'[j] > 0 \/ checking'[j] > 0 \/ made'[j] > 0 => Posted(j)'
                    /\ made'[j] + checking'[j] <= 1
                    /\ j \in nonces' => /\ made'[j] = 0 /\ checking'[j] = 0
                                        /\ attempt'[j].phase \notin {"none", "nonce"}
  BY DEF NonceInOnePlace
<1> DEFINE Place == /\ copies'[j] > 0 \/ checking'[j] > 0 \/ made'[j] > 0 => Posted(j)'
                    /\ made'[j] + checking'[j] <= 1
                    /\ j \in nonces' => /\ made'[j] = 0 /\ checking'[j] = 0
                                        /\ attempt'[j].phase \notin {"none", "nonce"}
<1>1. /\ copies[j] > 0 \/ checking[j] > 0 \/ made[j] > 0 => Posted(j)
      /\ made[j] + checking[j] <= 1
      /\ j \in nonces => /\ made[j] = 0 /\ checking[j] = 0
                         /\ attempt[j].phase \notin {"none", "nonce"}
  BY DEF NonceInOnePlace
<1>2. /\ attempt \in [Ids -> AttemptStates]
      /\ copies \in [Ids -> Nat] /\ checking \in [Ids -> Nat] /\ made \in [Ids -> Nat]
  BY DEF SessionTypeOK, AttemptStates
<1>3. Posted(j) => Posted(j)'
  BY PostedStays
<1>4. ASSUME UNCHANGED <<copies, checking, made, nonces>>,
             \/ attempt' = attempt
             \/ attempt'[j].phase \in {"signing", "over"}
             \/ attempt[j].phase \in {"none", "nonce"}
      PROVE  Place
  BY <1>1, <1>3, <1>4 DEF Posted
<1>5. ASSUME NEW k \in Ids, NEW a, Begin(k, a), UNCHANGED <<copies, checking, made, nonces>>
      PROVE  Place
  BY <1>1, <1>2, <1>3, <1>5 DEF Posted, Begin
<1>6. ASSUME NEW k \in Ids, Attempt(k)
      PROVE  Place
  <2>1. CASE NonceArrives(k)
    <3>1. CASE j = k
      <4>1. copies[k] = 0 /\ checking[k] = 0 /\ made[k] = 0
        BY <1>1, <1>2, <2>1, <3>1 DEF NonceArrives, Posted
      <4>2. attempt'[k].phase \notin {"none", "nonce"}
        BY <1>2, <2>1 DEF NonceArrives, Caught, AttemptStates
      <4>3. QED
        BY <2>1, <3>1, <4>1, <4>2 DEF NonceArrives
    <3>2. CASE j # k
      <4>1. attempt'[j] = attempt[j]
        BY <1>2, <2>1, <3>2 DEF NonceArrives, Caught
      <4>2. QED
        BY <1>1, <2>1, <3>2, <4>1 DEF NonceArrives, Posted
    <3>3. QED
      BY <3>1, <3>2
  <2>2. CASE NonceFails(k) \/ Rejected(k) \/ CreateFails(k)
    <3>1. attempt'[j] = attempt[j] \/ attempt'[j].phase = "over"
      BY <1>2, <2>2 DEF NonceFails, Rejected, CreateFails, Failed, Caught, AttemptStates
    <3>2. UNCHANGED <<copies, checking, made, nonces>>
      BY <2>2 DEF NonceFails, Rejected, CreateFails, Failed, apiVars
    <3>3. QED
      BY <1>1, <3>1, <3>2 DEF Posted
  <2>3. CASE \E n \in 1..MaxCopies : Signed(k, n)
    <3>1. \/ attempt'[j] = attempt[j] /\ copies'[j] = copies[j]
          \/ attempt'[j].phase = "creating"
      BY <1>2, <2>3 DEF Signed, AttemptStates
    <3>2. UNCHANGED <<checking, made, nonces>>
      BY <2>3 DEF Signed
    <3>3. QED
      BY <1>1, <3>1, <3>2 DEF Posted
  <2>4. CASE Consume(k)
    <3>1. CASE j = k
      <4>1. Posted(k)
        BY <1>1, <2>4, <3>1 DEF Consume
      <4>2. nonces' = nonces \ {k} /\ made' = made
        BY <2>4 DEF Consume
      <4>3. CASE k \in nonces
        <5>1. checking'[k] \in 0..1
          BY <1>1, <1>2, <2>4, <3>1, <4>3 DEF Consume
        <5>2. QED
          BY <1>1, <1>3, <3>1, <4>1, <4>2, <4>3, <5>1
      <4>4. CASE k \notin nonces
        <5>1. checking' = checking
          BY <2>4, <4>4 DEF Consume
        <5>2. QED
          BY <1>1, <1>3, <3>1, <4>1, <4>2, <4>4, <5>1
      <4>5. QED
        BY <4>3, <4>4
    <3>2. CASE j # k
      <4>1. checking'[j] = checking[j] /\ copies'[j] = copies[j]
        BY <1>2, <2>4, <3>2 DEF Consume
      <4>2. QED
        BY <1>1, <2>4, <4>1 DEF Consume, Posted
    <3>3. QED
      BY <3>1, <3>2
  <2>5. CASE Refuse(k)
    <3>1. checking'[j] \in Nat /\ checking'[j] <= checking[j]
      BY <1>2, <2>5 DEF Refuse
    <3>2. UNCHANGED <<copies, made, nonces, attempt>>
      BY <2>5 DEF Refuse
    <3>3. QED
      BY <1>1, <1>2, <3>1, <3>2 DEF Posted
  <2>6. CASE \E answered \in BOOLEAN : Create(k, answered)
    <3>1. UNCHANGED <<copies, nonces>>
      BY <2>6 DEF Create
    <3>2. CASE j = k
      <4>1. checking[k] > 0 /\ Posted(j)' /\ k \notin nonces
        BY <1>1, <1>2, <1>3, <2>6, <3>2 DEF Create
      <4>2. made'[k] = made[k] + 1 /\ checking'[k] = checking[k] - 1
        BY <1>2, <2>6 DEF Create
      <4>3. QED
        BY <1>1, <1>2, <3>1, <3>2, <4>1, <4>2
    <3>3. CASE j # k
      <4>1. made'[j] = made[j] /\ checking'[j] = checking[j] /\ attempt'[j] = attempt[j]
        BY <1>2, <2>6, <3>3 DEF Create
      <4>2. QED
        BY <1>1, <3>1, <4>1 DEF Posted
    <3>4. QED
      BY <3>2, <3>3
  <2>7. CASE Expire(k)
    BY <1>4, <2>7 DEF Expire, apiVars
  <2>8. QED
    BY <1>6, <2>1, <2>2, <2>3, <2>4, <2>5, <2>6, <2>7 DEF Attempt
<1>7. CASE Sign \/ SignAgain
  BY <1>4, <1>5, <1>7 DEF Sign, SignAgain, apiVars
<1>8. CASE Lock \/ Purge \/ UNCHANGED sessionVars \/ \E a \in Accounts \cup {NoAccount} : SwitchWallet(a)
  BY <1>4, <1>8 DEF Lock, Purge, sessionVars, SwitchWallet, apiVars
<1>9. CASE Restart
  <2>1. nonces' = {} /\ checking'[j] = 0 /\ UNCHANGED <<copies, made, attempt>>
    BY <1>9 DEF Restart
  <2>2. QED
    BY <1>1, <1>2, <2>1 DEF Posted
<1>10. CASE Reload
  <2>1. attempt'[j].phase = attempt[j].phase /\ UNCHANGED <<copies, checking, made, nonces>>
    BY <1>2, <1>10 DEF Reload, AttemptStates, apiVars
  <2>2. QED
    BY <1>1, <2>1 DEF Posted
<1>11. ASSUME NEW a \in Accounts, AnotherTab(a)
       PROVE  Place
  <2>1. UNCHANGED <<copies, checking, nonces>>
    BY <1>11 DEF AnotherTab
  <2>2. CASE UNCHANGED <<attempt, made>>
    BY <1>4, <2>1, <2>2
  <2>3. ASSUME NEW k \in Ids,
               Begin(k, [phase |-> "over", by |-> a, signer |-> a, left |-> TRUE]),
               made' = [made EXCEPT ![k] = 1]
        PROVE  Place
    <3>1. CASE j = k
      <4>1. /\ checking[k] = 0 /\ k \notin nonces
        BY <1>1, <1>2, <2>3, <3>1 DEF Begin, Posted
      <4>2. attempt'[k].phase = "over" /\ made'[k] = 1
        BY <1>2, <2>3 DEF Begin
      <4>3. QED
        BY <1>2, <2>1, <3>1, <4>1, <4>2 DEF Posted
    <3>2. CASE j # k
      <4>1. attempt'[j] = attempt[j] /\ made'[j] = made[j]
        BY <1>2, <2>3, <3>2 DEF Begin
      <4>2. QED
        BY <1>1, <2>1, <4>1 DEF Posted
    <3>3. QED
      BY <3>1, <3>2
  <2>4. QED
    BY <1>11, <2>2, <2>3 DEF AnotherTab
<1>12. QED
  BY <1>6, <1>7, <1>8, <1>9, <1>10, <1>11 DEF SessionNext

LEMMA NonceInit == SessionInit => NonceInOnePlace
BY DEF SessionInit, NonceInOnePlace, Ids

\* At most one session comes of a nonce, although the store is unlocked while a
\* signature is checked and a request may arrive any number of times.
THEOREM NonceUsedOnce == SessionSpec => []OneSessionPerNonce
<1>1. SessionTypeOK /\ NonceInOnePlace => OneSessionPerNonce
  BY DEF SessionTypeOK, NonceInOnePlace, OneSessionPerNonce
<1>2. QED
  BY <1>1, SessionTypeInit, SessionTypeStep, NonceInit, NonceStep, PTL DEF SessionSpec

-----------------------------------------------------------------------------
\* A session anywhere on the page was made of a nonce its own account signed.
Made(k) == made[k] > 0 /\ attempt[k].signer = attempt[k].by

SessionsAreMade ==
  /\ session # 0 => Made(session) /\ (account # NoAccount => attempt[session].by = account)
  /\ stored # 0 => Made(stored)

LEMMA MadeStays ==
  ASSUME SessionTypeOK, NonceInOnePlace, [SessionNext]_sessionVars, NEW k \in Ids, Made(k)
  PROVE  Made(k)' /\ attempt'[k].by = attempt[k].by
<1>1. Posted(k)
  BY DEF NonceInOnePlace, Made
<1>2. attempt'[k].by = attempt[k].by /\ attempt'[k].signer = attempt[k].signer
  BY <1>1, PostedStays
<1>3. made'[k] > 0
  <2>1. made \in [Ids -> Nat] /\ made[k] > 0
    BY DEF SessionTypeOK, Made
  <2>2. \/ made' = made
        \/ \E j \in Ids : made' = [made EXCEPT ![j] = @ + 1]
        \/ \E j \in Ids : made' = [made EXCEPT ![j] = 1]
    BY DEF SessionNext, Sign, SignAgain, Lock, Attempt, NonceArrives, NonceFails, Signed, Rejected,
           CreateFails, Failed, Consume, Refuse, Create, Expire, SwitchWallet, Purge, Restart,
           Reload, AnotherTab, sessionVars, apiVars
  <2>3. QED
    BY <2>1, <2>2
<1>4. QED
  BY <1>2, <1>3 DEF Made

LEMMA SessionStep ==
  SessionTypeOK /\ NonceInOnePlace /\ SessionsAreMade /\ [SessionNext]_sessionVars => SessionsAreMade'
<1> SUFFICES ASSUME SessionTypeOK, NonceInOnePlace, SessionsAreMade, [SessionNext]_sessionVars
             PROVE  SessionsAreMade'
  OBVIOUS
<1>0. /\ session \in Ids \cup {0} /\ stored \in Ids \cup {0} /\ 0 \notin Ids
      /\ attempt \in [Ids -> AttemptStates] /\ made \in [Ids -> Nat]
  BY SessionAssumption DEF SessionTypeOK, Ids, AttemptStates
<1> DEFINE Kept(k) == made'[k] > 0 /\ attempt'[k].signer = attempt'[k].by
<1>1. /\ session # 0 => Kept(session) /\ attempt'[session].by = attempt[session].by
      /\ stored # 0 => Kept(stored)
  <2>1. \A k \in Ids : Made(k) => Kept(k) /\ attempt'[k].by = attempt[k].by
    BY MadeStays DEF Made
  <2>2. QED
    BY <1>0, <2>1 DEF SessionsAreMade
<1>2. ASSUME session' \in {0, session}, stored' \in {0, stored}, account' = account
      PROVE  SessionsAreMade'
  BY <1>1, <1>2 DEF SessionsAreMade, Made
<1>3. CASE Sign \/ SignAgain \/ Lock \/ Purge \/ Restart \/ UNCHANGED sessionVars
  BY <1>2, <1>3 DEF Sign, SignAgain, Lock, ClearSession, Forget, Purge, Restart, sessionVars, signInVars
<1>4. ASSUME NEW k \in Ids, Attempt(k)
      PROVE  SessionsAreMade'
  <2>1. ASSUME Caught(k)
        PROVE  session' \in {0, session} /\ stored' \in {0, stored}
    BY <2>1 DEF Caught, Forget, signInVars
  <2>2. CASE NonceArrives(k)
    BY <1>2, <2>1, <2>2 DEF NonceArrives, signInVars
  <2>3. CASE NonceFails(k) \/ Rejected(k) \/ CreateFails(k)
    BY <1>2, <2>1, <2>3 DEF NonceFails, Rejected, CreateFails, Failed
  <2>4. CASE (\E n \in 1..MaxCopies : Signed(k, n)) \/ Consume(k) \/ Refuse(k) \/ Expire(k)
    BY <1>2, <2>4 DEF Signed, Consume, Refuse, Expire, signInVars
  <2>5. ASSUME NEW answered \in BOOLEAN, Create(k, answered)
        PROVE  SessionsAreMade'
    <3>1. account' = account /\ attempt[k].signer = attempt[k].by
      BY <2>5 DEF Create
    <3>2. CASE ShowSession(k, account)
      <4>1. CASE Dismissed(k, account)
        BY <1>2, <3>1, <3>2, <4>1 DEF ShowSession, ClearSession, Forget
      <4>2. CASE ~Dismissed(k, account)
        <5>1. session' = k /\ stored' = k
          BY <3>2, <4>2 DEF ShowSession
        <5>2. made'[k] > 0
          BY <1>0, <2>5 DEF Create
        <5>3. attempt'[k].by = attempt[k].by /\ attempt'[k].signer = attempt[k].signer
          BY <1>0, <2>5 DEF Create, AttemptStates
        <5>4. account # NoAccount => attempt[k].by = account
          BY <1>0, <4>2 DEF Dismissed
        <5>5. QED
          BY <3>1, <5>1, <5>2, <5>3, <5>4 DEF SessionsAreMade, Made
      <4>3. QED
        BY <4>1, <4>2
    <3>3. QED
      BY <1>2, <2>5, <3>1, <3>2 DEF Create, signInVars
  <2>6. QED
    BY <1>4, <2>2, <2>3, <2>4, <2>5 DEF Attempt
<1>5. ASSUME NEW a \in Accounts \cup {NoAccount}, SwitchWallet(a)
      PROVE  SessionsAreMade'
  <2>1. CASE Dismissed(session, a)
    BY <1>5, <2>1 DEF SwitchWallet, ClearSession, Forget, SessionsAreMade
  <2>2. CASE ~Dismissed(session, a)
    <3>1. session' = session /\ stored' = stored /\ account' = a /\ attempt' = attempt
      BY <1>5, <2>2 DEF SwitchWallet, signInVars
    <3>2. session # 0 /\ a # NoAccount => attempt[session].by = a
      BY <2>2 DEF Dismissed
    <3>3. QED
      BY <1>1, <3>1, <3>2 DEF SessionsAreMade, Made
  <2>3. QED
    BY <2>1, <2>2
<1>6. CASE Reload
  <2> DEFINE k == IF stored \in expired THEN 0 ELSE stored
  <2>1. account' = account
    BY <1>6 DEF Reload
  <2>2. CASE Dismissed(k, account)
    BY <1>2, <1>6, <2>1, <2>2 DEF Reload, ClearSession, Forget
  <2>3. CASE ~Dismissed(k, account)
    <3>1. session' = k /\ stored' = stored
      BY <1>6, <2>3 DEF Reload
    <3>2. k # 0 => k = stored /\ k \in Ids
      BY <1>0
    <3>3. k # 0 /\ account # NoAccount => attempt[k].by = account
      BY <2>3 DEF Dismissed
    <3>4. k # 0 => attempt'[k].by = attempt[k].by
      BY <1>0, <1>6, <3>2 DEF Reload, AttemptStates
    <3>5. QED
      BY <1>1, <2>1, <3>1, <3>2, <3>3, <3>4 DEF SessionsAreMade, Made
  <2>4. QED
    BY <2>2, <2>3
<1>7. ASSUME NEW a \in Accounts, AnotherTab(a)
      PROVE  SessionsAreMade'
  <2>1. session' = session /\ account' = account
    BY <1>7 DEF AnotherTab
  <2>2. stored' # 0 => Kept(stored')
    <3>1. ASSUME NEW k \in Ids,
                 Begin(k, [phase |-> "over", by |-> a, signer |-> a, left |-> TRUE]),
                 made' = [made EXCEPT ![k] = 1], stored' = k
          PROVE  Kept(stored')
      BY <1>0, <3>1 DEF Begin
    <3>2. QED
      BY <1>7, <3>1 DEF AnotherTab
  <2>3. QED
    BY <1>1, <2>1, <2>2 DEF SessionsAreMade, Made
<1>8. QED
  BY <1>3, <1>4, <1>5, <1>6, <1>7 DEF SessionNext

\* The session of the page is the connected account's, and that account signed
\* its nonce, whatever answers late and whatever other tabs store.
THEOREM SessionBelongsToAccount == SessionSpec => []SessionIsTheAccounts
<1>1. SessionInit => SessionsAreMade
  BY DEF SessionInit, SessionsAreMade
<1>2. SessionsAreMade => SessionIsTheAccounts
  BY DEF SessionsAreMade, SessionIsTheAccounts, Made
<1>3. QED
  BY <1>1, <1>2, SessionTypeInit, SessionTypeStep, NonceInit, NonceStep, SessionStep, PTL DEF SessionSpec

-------------------------------------------------------------------------------
(* The transactions of the client                                          *)

Flow == FlowStates \cup EndedFlows \cup {NotStarted}

OnlySponsoredExecute ==
  \A f \in Flows : flow[f].phase = "executing" => HookOf(f).mode = "sponsored"

\* An attestation is held, or fetched, only where the hook is mounted.
HeldWhereMounted ==
  /\ fetching => account # NoAccount /\ Fetches(view)
  /\ ~Fetches(view) => held = NoAccount

DoneIsAFlow == \A h \in HookNames : ui[h].step = "done" => ui[h].flow \in Flows

WalletTyped == WalletTypeOK /\ flow \in [Flows -> Flow]

\* The inductive invariant of the transactions.
WalletInv ==
  /\ WalletTyped
  /\ DoneIsOnChain /\ DoneIsAFlow
  /\ SponsoredFlowsAreCounted
  /\ OnlySponsoredExecute
  /\ HeldIsTheAccounts /\ HeldWhereMounted

LEMMA HookFields ==
  ASSUME NEW h \in HookNames
  PROVE  /\ Hook(h).mode \in {"sponsored", "direct"}
         /\ Hook(h).mode = "sponsored" => Hook(h).counted
         /\ Hook(h).builder \in Builder
<1>1. h \in DOMAIN AllHooks
  BY WalletAssumption
<1>2. Hook(h).builder \in Builder
  BY <1>1, HooksAreBuilders DEF Hook
<1>3. \A view_, builder_, panel_, config_ :
        /\ Sponsored(view_, builder_, panel_, config_).mode = "sponsored"
        /\ Sponsored(view_, builder_, panel_, config_).counted = TRUE
  BY DEF Sponsored
<1>4. \A view_, builder_, panel_, counted_ :
        Direct(view_, builder_, panel_, counted_).mode = "direct"
  BY DEF Direct
<1>5. Hook(h) \in {useCheckPassage, useBindWorldGate, useCreateGate, useBindOperatorWorldGate,
                   useAuthorizeFWExtension, useUpdateGatePolicy, useWithdrawTolls,
                   useTransferGateAdminCap, useSubmitIntel, useWalletAttestationIssue,
                   useDisputeActions, useVouchActions, useLendingActions, useOracleRegister,
                   useProfileCreate, useRevokeAttestation, useSchemaActions}
  BY <1>1 DEF Hook, AllHooks
<1>6. CASE Hook(h) \in {useCheckPassage, useBindWorldGate, useCreateGate,
                        useBindOperatorWorldGate, useAuthorizeFWExtension, useUpdateGatePolicy,
                        useWithdrawTolls, useTransferGateAdminCap, useSubmitIntel,
                        useWalletAttestationIssue}
  BY <1>2, <1>3, <1>6
     DEF useCheckPassage, useBindWorldGate, useCreateGate, useBindOperatorWorldGate,
         useAuthorizeFWExtension, useUpdateGatePolicy, useWithdrawTolls,
         useTransferGateAdminCap, useSubmitIntel, useWalletAttestationIssue
<1>7. CASE Hook(h) \in {useDisputeActions, useVouchActions, useLendingActions,
                        useOracleRegister, useProfileCreate, useRevokeAttestation,
                        useSchemaActions}
  BY <1>2, <1>4, <1>7
     DEF useDisputeActions, useVouchActions, useLendingActions, useOracleRegister,
         useProfileCreate, useRevokeAttestation, useSchemaActions
<1> QED BY <1>5, <1>6, <1>7

LEMMA FlowFields ==
  ASSUME WalletTyped, NEW f \in Flows
  PROVE  /\ InFlight(f) <=> flow[f] \in FlowStates
         /\ flow[f].phase = "ended" <=> flow[f] \in EndedFlows
         /\ Started(f) <=> flow[f] # NotStarted
         /\ InFlight(f) => flow[f].hook \in HookNames /\ flow[f].acct \in Accounts
BY DEF WalletTyped, Flow, FlowStates, EndedFlows, NotStarted, InFlight, Started, Live

\* What a flow shows and counts.
LEMMA Shown ==
  ASSUME WalletTyped, NEW f \in Flows, InFlight(f), NEW step \in Steps, Show(f, step)
  PROVE  /\ ui' \in [HookNames -> UiStates]
         /\ \A h \in HookNames : ui'[h] = ui[h]
              \/ (h = flow[f].hook /\ ui'[h].step = step /\ ui'[h].flow = f)
<1>1. flow[f].hook \in HookNames
  BY FlowFields
<1>2. ui \in [HookNames -> UiStates]
  BY DEF WalletTyped, WalletTypeOK
<1> DEFINE new == [step |-> step, flow |-> f, retry |-> FALSE]
<1>3. new \in UiStates /\ new.step = step /\ new.flow = f
  BY DEF UiStates
<1>4. ui' = IF flow[f].shown THEN [ui EXCEPT ![flow[f].hook] = new] ELSE ui
  BY DEF Show
<1> HIDE DEF new
<1> QED BY <1>1, <1>2, <1>3, <1>4

LEMMA FailureShown ==
  ASSUME WalletTyped, NEW f \in Flows, InFlight(f), NEW offered \in BOOLEAN, ShowFailure(f, offered)
  PROVE  /\ ui' \in [HookNames -> UiStates]
         /\ \A h \in HookNames : ui'[h] = ui[h] \/ ui'[h].step = "error"
<1>1. flow[f].hook \in HookNames
  BY FlowFields
<1>2. ui \in [HookNames -> UiStates]
  BY DEF WalletTyped, WalletTypeOK
<1> DEFINE new == [step |-> "error", flow |-> f, retry |-> offered]
<1>3. new \in UiStates /\ new.step = "error"
  BY DEF UiStates, Steps, Ended
<1>4. ui' = IF flow[f].shown THEN [ui EXCEPT ![flow[f].hook] = new] ELSE ui
  BY DEF ShowFailure
<1> HIDE DEF new
<1> QED BY <1>1, <1>2, <1>3, <1>4

LEMMA TallyFields ==
  ASSUME WalletTyped
  PROVE  /\ tel \in [{"sponsored", "direct"} -> Counters]
         /\ \A m \in {"sponsored", "direct"} :
              tel[m].started \in Nat /\ tel[m].done \in Nat /\ tel[m].failed \in Nat
BY DEF WalletTyped, WalletTypeOK, Counters

\* The counters of the sponsored flows after one of them is done or has failed.
LEMMA Tallied ==
  ASSUME WalletTyped, NEW f \in Flows, InFlight(f), NEW n \in Nat,
         NEW what \in {"started", "done", "failed"}, Count(f, what, n)
  PROVE  /\ tel' \in [{"sponsored", "direct"} -> Counters]
         /\ HookOf(f).mode # "sponsored" => tel'["sponsored"] = tel["sponsored"]
         /\ HookOf(f).mode = "sponsored" =>
              tel'["sponsored"] = [tel["sponsored"] EXCEPT ![what] = @ + n]
<1>1. flow[f].hook \in HookNames
  BY FlowFields
<1>2. /\ HookOf(f).mode \in {"sponsored", "direct"}
      /\ HookOf(f).mode = "sponsored" => HookOf(f).counted
  BY <1>1, HookFields DEF HookOf
<1>3. tel \in [{"sponsored", "direct"} -> Counters]
  BY DEF WalletTyped, WalletTypeOK
<1> DEFINE m == HookOf(f).mode
           new == [tel[m] EXCEPT ![what] = @ + n]
<1>4. new \in Counters
  BY <1>2, <1>3 DEF Counters
<1>5. tel' = IF HookOf(f).counted THEN [tel EXCEPT ![m] = new] ELSE tel
  BY <1>2, <1>3 DEF Count
<1> HIDE DEF new
<1>6. tel' \in [{"sponsored", "direct"} -> Counters]
  BY <1>2, <1>3, <1>4, <1>5
<1>7. m = "sponsored" => tel'["sponsored"] = new
  BY <1>2, <1>3, <1>5
<1>8. m # "sponsored" => tel'["sponsored"] = tel["sponsored"]
  BY <1>2, <1>3, <1>5
<1> QED BY <1>6, <1>7, <1>8 DEF new

\* Flows that are over stay as they are, and nothing is newly shown as done.
EndedStay == \A g \in Flows : flow[g].phase = "ended" => flow'[g] = flow[g]
NoNewDone == \A h \in HookNames : ui'[h].step = "done" => ui'[h] = ui[h]

LEMMA DoneKept ==
  ASSUME DoneIsOnChain, DoneIsAFlow, EndedStay, NoNewDone
  PROVE  DoneIsOnChain' /\ DoneIsAFlow'
<1> SUFFICES ASSUME NEW h \in HookNames, ui'[h].step = "done"
             PROVE  LET f == ui'[h].flow IN
                      /\ f \in Flows
                      /\ flow'[f].phase = "ended" /\ flow'[f].hook = h /\ flow'[f].chain = "ok"
  BY DEF DoneIsOnChain, DoneIsAFlow
<1>1. ui'[h] = ui[h]
  BY DEF NoNewDone
<1>2. /\ ui[h].flow \in Flows
      /\ flow[ui[h].flow].phase = "ended" /\ flow[ui[h].flow].hook = h
      /\ flow[ui[h].flow].chain = "ok"
  BY <1>1 DEF DoneIsOnChain, DoneIsAFlow
<1> QED BY <1>1, <1>2 DEF EndedStay

\* The sponsored flows on their way.
Out == {f \in Flows : InFlight(f) /\ HookOf(f).mode = "sponsored"}

LEMMA OutFinite == IsFiniteSet(Out) /\ Cardinality(Out) \in Nat
<1>1. Out \subseteq Flows
  BY DEF Out
<1> QED BY <1>1, WalletAssumption, FS_Subset, FS_CardinalityType

LEMMA CountedAsBefore ==
  ASSUME SponsoredFlowsAreCounted, Out' = Out, tel'["sponsored"] = tel["sponsored"]
  PROVE  SponsoredFlowsAreCounted'
BY DEF SponsoredFlowsAreCounted, Out

LEMMA CountedAsEnded ==
  ASSUME WalletTyped, SponsoredFlowsAreCounted, NEW f \in Out, Out' = Out \ {f},
         NEW what \in {"done", "failed"},
         tel'["sponsored"] = [tel["sponsored"] EXCEPT ![what] = @ + 1]
  PROVE  SponsoredFlowsAreCounted'
<1>1. Cardinality(Out \ {f}) = Cardinality(Out) - 1
  BY OutFinite, FS_RemoveElement
<1> DEFINE t == tel["sponsored"]
           n == Cardinality(Out)
<1>2. t \in Counters /\ n \in Nat
  BY OutFinite DEF WalletTyped, WalletTypeOK
<1>3. t.started = t.done + t.failed + n
  BY DEF SponsoredFlowsAreCounted, Out
<1> HIDE DEF t, n
<1>4. [t EXCEPT ![what] = @ + 1].started
        = [t EXCEPT ![what] = @ + 1].done + [t EXCEPT ![what] = @ + 1].failed + (n - 1)
  BY <1>2, <1>3 DEF Counters
<1>5. Cardinality(Out') = n - 1
  BY <1>1 DEF n
<1>6. tel'["sponsored"] = [t EXCEPT ![what] = @ + 1]
  BY DEF t
<1>7. tel'["sponsored"].started
        = tel'["sponsored"].done + tel'["sponsored"].failed + Cardinality(Out')
  BY <1>4, <1>5, <1>6
<1> QED BY <1>7 DEF SponsoredFlowsAreCounted, Out

LEMMA CountedAsStarted ==
  ASSUME WalletTyped, SponsoredFlowsAreCounted, NEW f, f \notin Out, Out' = Out \cup {f},
         tel'["sponsored"] = [tel["sponsored"] EXCEPT !.started = @ + 1]
  PROVE  SponsoredFlowsAreCounted'
<1>1. Cardinality(Out \cup {f}) = Cardinality(Out) + 1
  BY OutFinite, FS_AddElement
<1> DEFINE t == tel["sponsored"]
           n == Cardinality(Out)
<1>2. t \in Counters /\ n \in Nat
  BY OutFinite DEF WalletTyped, WalletTypeOK
<1>3. t.started = t.done + t.failed + n
  BY DEF SponsoredFlowsAreCounted, Out
<1> HIDE DEF t, n
<1>4. [t EXCEPT !.started = @ + 1].started
        = [t EXCEPT !.started = @ + 1].done + [t EXCEPT !.started = @ + 1].failed + (n + 1)
  BY <1>2, <1>3 DEF Counters
<1>5. Cardinality(Out') = n + 1
  BY <1>1 DEF n
<1>6. tel'["sponsored"] = [t EXCEPT !.started = @ + 1]
  BY DEF t
<1>7. tel'["sponsored"].started
        = tel'["sponsored"].done + tel'["sponsored"].failed + Cardinality(Out')
  BY <1>4, <1>5, <1>6
<1> QED BY <1>7 DEF SponsoredFlowsAreCounted, Out

\* A flow that leaves the way, or stays on it: the others stand still.
LEMMA OutAfter ==
  ASSUME WalletTyped, NEW f \in Flows, InFlight(f), NEW new \in FlowStates \cup EndedFlows,
         flow' = [flow EXCEPT ![f] = new],
         new.hook = flow[f].hook
  PROVE  /\ flow' \in [Flows -> Flow] /\ EndedStay /\ flow'[f] = new
         /\ \A g \in Flows \ {f} : flow'[g] = flow[g]
         /\ new \in FlowStates => Out' = Out
         /\ new \in EndedFlows => Out' = Out \ {f}
<1>1. flow \in [Flows -> Flow]
  BY DEF WalletTyped
<1>2. flow' \in [Flows -> Flow] /\ flow'[f] = new /\ \A g \in Flows \ {f} : flow'[g] = flow[g]
  BY <1>1 DEF Flow
<1>3. EndedStay
  BY <1>2 DEF EndedStay, InFlight, Live
<1>4. \A g \in Flows \ {f} : g \in Out' <=> g \in Out
  BY <1>2 DEF Out, InFlight, HookOf
<1>5. new \in FlowStates => (f \in Out' <=> f \in Out)
  BY <1>2 DEF Out, InFlight, HookOf, FlowStates
<1>6. new \in EndedFlows => f \notin Out'
  BY <1>2 DEF Out, InFlight, EndedFlows, Live
<1>7. Out \subseteq Flows /\ Out' \subseteq Flows
  BY DEF Out
<1> QED BY <1>2, <1>3, <1>4, <1>5, <1>6, <1>7

-------------------------------------------------------------------------------
\* The page or the sponsor's coins move while flows and counters stand still.
LEMMA PageMoves ==
  ASSUME WalletInv, UNCHANGED <<flow, tel, version, owner>>, gas' \in Nat,
         config' \in Bundles, account' \in Accounts \cup {NoAccount}, view' \in Views,
         held' \in Accounts \cup {NoAccount}, fetching' \in BOOLEAN,
         cancelled' \in SUBSET Accounts,
         ui' \in [HookNames -> UiStates], NoNewDone,
         HeldIsTheAccounts', HeldWhereMounted'
  PROVE  WalletInv'
<1>1. WalletTyped'
  BY DEF WalletInv, WalletTyped, WalletTypeOK, Started
<1>2. DoneIsOnChain' /\ DoneIsAFlow'
  BY DoneKept DEF WalletInv, EndedStay
<1>3. SponsoredFlowsAreCounted'
  BY DEF WalletInv, SponsoredFlowsAreCounted, InFlight, HookOf
<1>4. OnlySponsoredExecute'
  BY DEF WalletInv, OnlySponsoredExecute, HookOf
<1> QED BY <1>1, <1>2, <1>3, <1>4 DEF WalletInv

\* A flow takes its next step on the way.
LEMMA FlowMoves ==
  ASSUME WalletInv, NEW f \in Flows, InFlight(f), NEW new \in FlowStates,
         flow' = [flow EXCEPT ![f] = new],
         new.hook = flow[f].hook,
         new.phase = "executing" => HookOf(f).mode = "sponsored",
         NEW step \in Steps \ {"done"}, Show(f, step),
         UNCHANGED <<pageVars, tel, chainVars>>
  PROVE  WalletInv'
<1>0. flow \in [Flows -> Flow]
  BY DEF WalletInv, WalletTyped
<1>2. /\ flow' \in [Flows -> Flow] /\ EndedStay /\ flow'[f] = new /\ Out' = Out
      /\ \A g \in Flows \ {f} : flow'[g] = flow[g]
  BY OutAfter DEF WalletInv
<1>3. ui' \in [HookNames -> UiStates] /\ NoNewDone
  BY Shown DEF WalletInv, NoNewDone
<1>4. WalletTyped'
  <2>1. \A g \in Flows : Started(g)' => flow'[g] \in FlowStates \cup EndedFlows
    BY <1>2 DEF Started, Flow, NotStarted
  <2> QED BY <1>2, <1>3, <2>1 DEF WalletInv, WalletTyped, WalletTypeOK, pageVars, chainVars
<1>5. DoneIsOnChain' /\ DoneIsAFlow'
  BY <1>2, <1>3, DoneKept DEF WalletInv
<1>6. SponsoredFlowsAreCounted'
  BY <1>2, CountedAsBefore DEF WalletInv
<1>7. OnlySponsoredExecute'
  <2>1. ASSUME NEW g \in Flows, flow'[g].phase = "executing"
        PROVE  Hook(flow'[g].hook).mode = "sponsored"
    BY <1>2, <2>1 DEF WalletInv, OnlySponsoredExecute, HookOf
  <2> QED BY <2>1 DEF OnlySponsoredExecute, HookOf
<1>8. HeldIsTheAccounts' /\ HeldWhereMounted'
  BY DEF WalletInv, HeldIsTheAccounts, HeldWhereMounted, pageVars, Fetches
<1> QED BY <1>4, <1>5, <1>6, <1>7, <1>8 DEF WalletInv

\* What the end of a flow does not touch.
LEMMA FlowsEnded ==
  ASSUME WalletInv, NEW f \in Flows, InFlight(f),
         NEW chain \in {"no", "ok", "aborted"},
         flow' = [flow EXCEPT ![f] = End(f, chain)],
         gas' \in Nat, version' \in [Objects -> Nat],
         owner' \in [Objects -> Accounts \cup {Admin, NoAccount}],
         UNCHANGED pageVars,
         ui' \in [HookNames -> UiStates], tel' \in [{"sponsored", "direct"} -> Counters],
         DoneIsOnChain', DoneIsAFlow', SponsoredFlowsAreCounted'
  PROVE  WalletInv'
<1> DEFINE new == End(f, chain)
<1>0. flow[f].hook \in HookNames /\ WalletTyped
  BY FlowFields DEF WalletInv
<1>1. new \in EndedFlows /\ new.hook = flow[f].hook /\ new.phase = "ended"
  BY <1>0 DEF End, EndedFlows
<1>3. flow' = [flow EXCEPT ![f] = new]
  OBVIOUS
<1> HIDE DEF new
<1>4. /\ flow' \in [Flows -> Flow] /\ flow'[f] = new
      /\ \A g \in Flows \ {f} : flow'[g] = flow[g]
  BY <1>0, <1>1, <1>3, OutAfter
<1>5. WalletTyped'
  <2>1. \A g \in Flows : Started(g)' => flow'[g] \in FlowStates \cup EndedFlows
    BY <1>4 DEF Started, Flow, NotStarted
  <2> QED BY <1>4, <2>1 DEF WalletInv, WalletTyped, WalletTypeOK, pageVars
<1>8. OnlySponsoredExecute'
  <2>1. ASSUME NEW g \in Flows, flow'[g].phase = "executing"
        PROVE  Hook(flow'[g].hook).mode = "sponsored"
    <3>1. g # f
      BY <1>1, <1>4, <2>1
    <3> QED BY <1>4, <2>1, <3>1 DEF WalletInv, OnlySponsoredExecute, HookOf
  <2> QED BY <2>1 DEF OnlySponsoredExecute, HookOf
<1>9. HeldIsTheAccounts' /\ HeldWhereMounted'
  BY DEF WalletInv, HeldIsTheAccounts, HeldWhereMounted, pageVars, Fetches
<1> QED BY <1>5, <1>8, <1>9 DEF WalletInv

\* A flow ends.
LEMMA FlowEnds ==
  ASSUME WalletInv, NEW f \in Flows, InFlight(f),
         NEW chain \in {"no", "ok", "aborted"},
         flow' = [flow EXCEPT ![f] = End(f, chain)],
         gas' \in Nat, version' \in [Objects -> Nat],
         owner' \in [Objects -> Accounts \cup {Admin, NoAccount}],
         \/ /\ chain = "ok" /\ Show(f, "done") /\ Count(f, "done", 1)
         \/ \E offered \in BOOLEAN : /\ ShowFailure(f, offered)
                         /\ \/ Count(f, "failed", 1)
                            \/ HookOf(f).mode # "sponsored" /\ Count(f, "failed", 2),
         UNCHANGED pageVars
  PROVE  WalletInv'
<1> DEFINE new == End(f, chain)
<1>0. flow[f].hook \in HookNames /\ WalletTyped
  BY FlowFields DEF WalletInv
<1>1. new \in EndedFlows /\ new.hook = flow[f].hook /\ new.chain = chain /\ new.phase = "ended"
  BY <1>0 DEF End, EndedFlows
<1>3. flow' = [flow EXCEPT ![f] = new]
  OBVIOUS
<1> HIDE DEF new
<1>4. /\ flow' \in [Flows -> Flow] /\ EndedStay /\ flow'[f] = new /\ Out' = Out \ {f}
      /\ \A g \in Flows \ {f} : flow'[g] = flow[g]
  BY <1>0, <1>1, <1>3, OutAfter
<1>5. CASE chain = "ok" /\ Show(f, "done") /\ Count(f, "done", 1)
  <2>1. /\ ui' \in [HookNames -> UiStates]
        /\ \A h \in HookNames : ui'[h] = ui[h] \/ (h = flow[f].hook /\ ui'[h].flow = f)
    BY <1>0, <1>5, Shown DEF Steps, Ended
  <2>2. ASSUME NEW h \in HookNames, ui'[h].step = "done"
        PROVE  LET g == ui'[h].flow IN
                 g \in Flows /\ flow'[g].phase = "ended" /\ flow'[g].hook = h /\ flow'[g].chain = "ok"
    <3>1. CASE ui'[h] = ui[h]
      <4>1. /\ ui[h].flow \in Flows /\ flow[ui[h].flow].phase = "ended"
            /\ flow[ui[h].flow].hook = h /\ flow[ui[h].flow].chain = "ok"
        BY <2>2, <3>1 DEF WalletInv, DoneIsOnChain, DoneIsAFlow
      <4> QED BY <1>4, <3>1, <4>1 DEF EndedStay
    <3>2. CASE h = flow[f].hook /\ ui'[h].flow = f
      BY <1>1, <1>4, <1>5, <3>2
    <3> QED BY <2>1, <3>1, <3>2
  <2>3. DoneIsOnChain' /\ DoneIsAFlow'
    BY <2>2 DEF DoneIsOnChain, DoneIsAFlow
  <2>4. /\ tel' \in [{"sponsored", "direct"} -> Counters]
        /\ HookOf(f).mode # "sponsored" => tel'["sponsored"] = tel["sponsored"]
        /\ HookOf(f).mode = "sponsored" =>
             tel'["sponsored"] = [tel["sponsored"] EXCEPT !["done"] = @ + 1]
    BY <1>0, <1>5, Tallied
  <2>5. SponsoredFlowsAreCounted'
    <3>1. CASE f \in Out
      BY <1>0, <1>4, <2>4, <3>1, CountedAsEnded DEF WalletInv, Out
    <3>2. CASE f \notin Out
      BY <1>4, <2>4, <3>2, CountedAsBefore DEF WalletInv, Out
    <3> QED BY <3>1, <3>2
  <2> QED BY <2>1, <2>3, <2>4, <2>5, FlowsEnded
<1>6. CASE \E offered \in BOOLEAN : /\ ShowFailure(f, offered)
                        /\ \/ Count(f, "failed", 1)
                           \/ HookOf(f).mode # "sponsored" /\ Count(f, "failed", 2)
  <2>1. ui' \in [HookNames -> UiStates] /\ NoNewDone
    BY <1>0, <1>6, FailureShown DEF NoNewDone
  <2>2. DoneIsOnChain' /\ DoneIsAFlow'
    BY <1>4, <2>1, DoneKept DEF WalletInv
  <2>3. PICK n \in {1, 2} : Count(f, "failed", n) /\ (n = 2 => HookOf(f).mode # "sponsored")
    BY <1>6
  <2>4. /\ tel' \in [{"sponsored", "direct"} -> Counters]
        /\ HookOf(f).mode # "sponsored" => tel'["sponsored"] = tel["sponsored"]
        /\ HookOf(f).mode = "sponsored" =>
             tel'["sponsored"] = [tel["sponsored"] EXCEPT !["failed"] = @ + n]
    <3>1. n \in Nat /\ Count(f, "failed", n)
      BY <2>3
    <3> QED BY <1>0, <3>1, Tallied
  <2>5. SponsoredFlowsAreCounted'
    <3>1. CASE f \in Out
      <4>1. n = 1 /\ HookOf(f).mode = "sponsored"
        BY <2>3, <3>1 DEF Out
      <4> QED BY <1>0, <1>4, <2>4, <3>1, <4>1, CountedAsEnded DEF WalletInv
    <3>2. CASE f \notin Out
      BY <1>4, <2>4, <3>2, CountedAsBefore DEF WalletInv, Out
    <3> QED BY <3>1, <3>2
  <2> QED BY <2>1, <2>2, <2>4, <2>5, FlowsEnded
<1> QED BY <1>5, <1>6

-------------------------------------------------------------------------------
\* One lemma for each action of the page.
LEMMA SwitchAccountKeeps ==
  ASSUME WalletInv, NEW a \in Accounts \cup {NoAccount}, SwitchAccount(a)
  PROVE  WalletInv'
<1>0. fetching => account \in Accounts
  BY DEF WalletInv, WalletTyped, WalletTypeOK, AccountTypeOK, HeldWhereMounted
<1>1. cancelled' \in SUBSET Accounts
  <2>1. cancelled \in SUBSET Accounts
    BY DEF WalletInv, WalletTyped, WalletTypeOK
  <2> QED BY <1>0, <2>1 DEF SwitchAccount
<1>2. /\ config' \in Bundles /\ account' \in Accounts \cup {NoAccount} /\ view' \in Views
      /\ held' \in Accounts \cup {NoAccount} /\ fetching' \in BOOLEAN
      /\ gas' \in Nat /\ ui' \in [HookNames -> UiStates]
  BY DEF SwitchAccount, WalletInv, WalletTyped, WalletTypeOK, Fetches
<1>3. NoNewDone
  BY DEF SwitchAccount, NoNewDone
<1>4. HeldIsTheAccounts' /\ HeldWhereMounted'
  BY DEF SwitchAccount, WalletInv, HeldIsTheAccounts, HeldWhereMounted, Fetches
<1> QED BY <1>1, <1>2, <1>3, <1>4, PageMoves DEF SwitchAccount

LEMMA AttestationsArriveKeeps ==
  ASSUME WalletInv, NEW found \in BOOLEAN, AttestationsArrive(found)
  PROVE  WalletInv'
<1>1. /\ config' \in Bundles /\ account' \in Accounts \cup {NoAccount} /\ view' \in Views
      /\ held' \in Accounts \cup {NoAccount} /\ fetching' \in BOOLEAN
      /\ cancelled' \in SUBSET Accounts /\ gas' \in Nat
      /\ ui' \in [HookNames -> UiStates]
  BY DEF AttestationsArrive, Take, WalletInv, WalletTyped, WalletTypeOK, AccountTypeOK
<1>2. NoNewDone
  BY DEF AttestationsArrive, NoNewDone
<1>3. HeldIsTheAccounts' /\ HeldWhereMounted'
  BY DEF AttestationsArrive, Take, WalletInv, HeldIsTheAccounts, HeldWhereMounted, Fetches
<1> QED BY <1>1, <1>2, <1>3, PageMoves DEF AttestationsArrive

LEMMA CancelledArriveKeeps ==
  ASSUME WalletInv, NEW of \in Accounts, NEW found \in BOOLEAN, CancelledArrive(of, found)
  PROVE  WalletInv'
<1>0. held' = held /\ UNCHANGED <<account, view, fetching, ui>>
  BY DEF CancelledArrive, Take
<1>1. /\ config' \in Bundles /\ account' \in Accounts \cup {NoAccount} /\ view' \in Views
      /\ held' \in Accounts \cup {NoAccount} /\ fetching' \in BOOLEAN
      /\ cancelled' \in SUBSET Accounts /\ gas' \in Nat
      /\ ui' \in [HookNames -> UiStates]
  BY <1>0 DEF CancelledArrive, WalletInv, WalletTyped, WalletTypeOK, AccountTypeOK
<1>2. NoNewDone
  BY <1>0 DEF NoNewDone
<1>3. HeldIsTheAccounts' /\ HeldWhereMounted'
  BY <1>0 DEF WalletInv, HeldIsTheAccounts, HeldWhereMounted, Fetches
<1> QED BY <1>1, <1>2, <1>3, PageMoves DEF CancelledArrive

LEMMA IdleShowsNothing == Idle \in UiStates /\ Idle.step # "done"
BY DEF Idle, UiStates, Steps

LEMMA ClearKeeps ==
  ASSUME WalletInv, NEW h \in HookNames, Clear(h)
  PROVE  WalletInv'
<1>0. ui \in [HookNames -> UiStates]
  BY DEF WalletInv, WalletTyped, WalletTypeOK
<1>1. ui' = [ui EXCEPT ![h] = Idle]
  BY DEF Clear
<1>2. ui' \in [HookNames -> UiStates] /\ NoNewDone
  BY <1>0, <1>1, IdleShowsNothing DEF NoNewDone
<1>3. /\ config' \in Bundles /\ account' \in Accounts \cup {NoAccount} /\ view' \in Views
      /\ held' \in Accounts \cup {NoAccount} /\ fetching' \in BOOLEAN
      /\ cancelled' \in SUBSET Accounts /\ gas' \in Nat
  BY DEF Clear, pageVars, chainVars, WalletInv, WalletTyped, WalletTypeOK, AccountTypeOK
<1>4. HeldIsTheAccounts' /\ HeldWhereMounted'
  BY DEF Clear, pageVars, WalletInv, HeldIsTheAccounts, HeldWhereMounted, Fetches
<1> QED BY <1>2, <1>3, <1>4, PageMoves DEF Clear, chainVars

LEMMA OpenViewKeeps ==
  ASSUME WalletInv, NEW v \in Views, OpenView(v)
  PROVE  WalletInv'
<1>0. WalletTyped /\ flow \in [Flows -> Flow]
  BY DEF WalletInv, WalletTyped
<1>1. ASSUME NEW f \in Flows, InFlight(f)
      PROVE  LET new == [flow[f] EXCEPT !.shown = FALSE] IN
             /\ new \in FlowStates
             /\ new.phase = flow[f].phase /\ new.hook = flow[f].hook
  <2>1. flow[f] \in FlowStates
    BY <1>0, <1>1, FlowFields
  <2> QED BY <2>1 DEF FlowStates
<1>2. flow' = [f \in Flows |-> IF InFlight(f) THEN [flow[f] EXCEPT !.shown = FALSE]
                               ELSE flow[f]]
  BY DEF OpenView
<1>3. /\ flow' \in [Flows -> Flow]
      /\ \A f \in Flows : InFlight(f) =>
           /\ flow'[f] \in FlowStates
           /\ flow'[f].phase = flow[f].phase /\ flow'[f].hook = flow[f].hook
      /\ \A f \in Flows : ~InFlight(f) => flow'[f] = flow[f]
  BY <1>0, <1>1, <1>2 DEF Flow
<1>4. EndedStay
  BY <1>3 DEF EndedStay, InFlight, Live
<1>5. ui' \in [HookNames -> UiStates] /\ NoNewDone
  BY IdleShowsNothing DEF OpenView, NoNewDone
<1>6. DoneIsOnChain' /\ DoneIsAFlow'
  BY <1>4, <1>5, DoneKept DEF WalletInv
<1>7. \A f \in Flows : (InFlight(f)' <=> InFlight(f)) /\ (InFlight(f) => HookOf(f)' = HookOf(f))
  BY <1>3 DEF InFlight, HookOf
<1>8. Out' = Out
  BY <1>7 DEF Out
<1>9. SponsoredFlowsAreCounted'
  BY <1>8, CountedAsBefore DEF WalletInv, OpenView
<1>10. WalletTyped'
  <2>1. \A f \in Flows : Started(f)' => flow'[f] \in FlowStates \cup EndedFlows
    BY <1>3 DEF Started, Flow, NotStarted
  <2>2. fetching' \in BOOLEAN
    BY DEF OpenView, Fetches
  <2> QED BY <1>3, <1>5, <2>1, <2>2 DEF OpenView, WalletInv, WalletTyped, WalletTypeOK
<1>11. OnlySponsoredExecute'
  <2>1. ASSUME NEW f \in Flows, flow'[f].phase = "executing"
        PROVE  Hook(flow'[f].hook).mode = "sponsored"
    <3>1. InFlight(f) \/ flow[f].phase = "executing"
      BY <1>3, <2>1
    <3>2. flow'[f].hook = flow[f].hook /\ flow[f].phase = "executing"
      BY <1>3, <2>1, <3>1 DEF InFlight, Live
    <3> QED BY <3>2 DEF WalletInv, OnlySponsoredExecute, HookOf
  <2> QED BY <2>1 DEF OnlySponsoredExecute, HookOf
<1>12. HeldIsTheAccounts' /\ HeldWhereMounted'
  BY DEF OpenView, HeldIsTheAccounts, HeldWhereMounted, Fetches
<1> QED BY <1>6, <1>9, <1>10, <1>11, <1>12 DEF WalletInv

\* A refusal counts a start and a failure at once, of a direct hook.
LEMMA RefuseForConfigKeeps ==
  ASSUME WalletInv, NEW h \in HookNames, RefuseForConfig(h)
  PROVE  WalletInv'
<1>0. WalletTyped /\ flow' = flow /\ UNCHANGED <<pageVars, chainVars>>
  BY DEF WalletInv, RefuseForConfig
<1> DEFINE t == tel["direct"]
           t1 == [t EXCEPT !.started = @ + 1]
           new == [t EXCEPT !.started = @ + 1, !.failed = @ + 1]
<1>1. tel \in [{"sponsored", "direct"} -> Counters]
  BY <1>0, TallyFields
<1>2. tel' = tel \/ tel' = [tel EXCEPT !["direct"] = new]
  BY <1>1 DEF RefuseForConfig
<1>3. new \in Counters
  <2>1. t \in Counters
    BY <1>1
  <2>2. new = [t1 EXCEPT !.failed = @ + 1]
    OBVIOUS
  <2> HIDE DEF t, new
  <2>3. t1 \in Counters
    BY <2>1 DEF Counters
  <2> HIDE DEF t1
  <2> QED BY <2>2, <2>3 DEF Counters
<1> HIDE DEF new, t
<1>4. tel' \in [{"sponsored", "direct"} -> Counters] /\ tel'["sponsored"] = tel["sponsored"]
  BY <1>1, <1>2, <1>3
<1>5. Out' = Out
  BY <1>0 DEF Out, InFlight, HookOf
<1>6. SponsoredFlowsAreCounted'
  BY <1>4, <1>5, CountedAsBefore DEF WalletInv
<1>7. ui' \in [HookNames -> UiStates] /\ NoNewDone
  <2> DEFINE shown == [Idle EXCEPT !.step = "error"]
  <2>1. shown \in UiStates /\ shown.step # "done"
    BY DEF Idle, UiStates, Steps, Ended
  <2>2. ui' = [ui EXCEPT ![h] = shown]
    BY DEF RefuseForConfig
  <2>3. ui \in [HookNames -> UiStates]
    BY <1>0 DEF WalletTyped, WalletTypeOK
  <2> HIDE DEF shown
  <2> QED BY <2>1, <2>2, <2>3 DEF NoNewDone
<1>8. DoneIsOnChain' /\ DoneIsAFlow'
  BY <1>0, <1>7, DoneKept DEF WalletInv, EndedStay
<1>9. WalletTyped'
  BY <1>0, <1>4, <1>7 DEF pageVars, chainVars, WalletTyped, WalletTypeOK, AccountTypeOK, Started
<1>10. OnlySponsoredExecute'
  BY <1>0 DEF WalletInv, OnlySponsoredExecute, HookOf
<1>11. HeldIsTheAccounts' /\ HeldWhereMounted'
  BY <1>0 DEF pageVars, WalletInv, HeldIsTheAccounts, HeldWhereMounted, Fetches
<1> QED BY <1>6, <1>8, <1>9, <1>10, <1>11 DEF WalletInv

LEMMA StartKeeps ==
  ASSUME WalletInv, NEW h \in HookNames, NEW f \in Flows, Start(h, f)
  PROVE  WalletInv'
<1> DEFINE new == [hook |-> h, acct |-> account, phase |-> "building", pins |-> {},
                   proof |-> IF h = "checkPassage" THEN held ELSE NoAccount,
                   gasAt |-> 0, signed |-> FALSE, shown |-> TRUE]
           shown == [step |-> IF Hook(h).mode = "direct" THEN "signing" ELSE "building",
                     flow |-> f, retry |-> FALSE]
<1>0. WalletTyped /\ flow \in [Flows -> Flow]
  BY DEF WalletInv, WalletTyped
<1>1. account \in Accounts /\ ~Started(f) /\ held \in Accounts \cup {NoAccount}
  BY <1>0 DEF Start, ButtonStarts, RetryOffered, WalletTyped, WalletTypeOK
<1>2. /\ new \in FlowStates /\ new.hook = h /\ new.phase = "building" /\ new.pins = {}
  BY <1>1 DEF FlowStates, Live
<1>3. flow' = [flow EXCEPT ![f] = new]
  BY DEF Start
<1>4. shown \in UiStates /\ shown.step # "done"
  BY DEF UiStates, Steps, Busy
<1>5. ui' = [ui EXCEPT ![h] = shown]
  BY DEF Start
<1> HIDE DEF new, shown
<1>6. /\ flow' \in [Flows -> Flow] /\ flow'[f] = new
      /\ \A g \in Flows \ {f} : flow'[g] = flow[g]
  BY <1>0, <1>2, <1>3 DEF Flow
<1>7. ui' \in [HookNames -> UiStates] /\ NoNewDone
  <2>1. ui \in [HookNames -> UiStates]
    BY <1>0 DEF WalletTyped, WalletTypeOK
  <2> QED BY <1>4, <1>5, <2>1 DEF NoNewDone
<1>8. EndedStay
  BY <1>1, <1>6 DEF EndedStay, Started
<1>9. DoneIsOnChain' /\ DoneIsAFlow'
  BY <1>7, <1>8, DoneKept DEF WalletInv
<1>10. ~InFlight(f) /\ InFlight(f)' /\ HookOf(f)' = Hook(h)
  BY <1>1, <1>2, <1>6 DEF InFlight, Started, Live, HookOf
<1>11. \A g \in Flows \ {f} : g \in Out' <=> g \in Out
  BY <1>6 DEF Out, InFlight, HookOf
<1>12. /\ tel' \in [{"sponsored", "direct"} -> Counters]
       /\ Hook(h).mode # "sponsored" => tel'["sponsored"] = tel["sponsored"]
       /\ Hook(h).mode = "sponsored" =>
            tel'["sponsored"] = [tel["sponsored"] EXCEPT !.started = @ + 1]
  <2> DEFINE m == Hook(h).mode
             more == [tel[m] EXCEPT !.started = @ + 1]
  <2>1. m \in {"sponsored", "direct"} /\ (m = "sponsored" => Hook(h).counted)
    BY HookFields
  <2>2. tel \in [{"sponsored", "direct"} -> Counters]
    BY <1>0, TallyFields
  <2>3. more \in Counters
    BY <2>1, <2>2 DEF Counters
  <2>4. tel' = IF Hook(h).counted THEN [tel EXCEPT ![m] = more] ELSE tel
    BY <2>1, <2>2 DEF Start
  <2> HIDE DEF more
  <2>5. tel' \in [{"sponsored", "direct"} -> Counters]
    BY <2>1, <2>2, <2>3, <2>4
  <2>6. m = "sponsored" => tel'["sponsored"] = more
    BY <2>1, <2>2, <2>4
  <2>7. m # "sponsored" => tel'["sponsored"] = tel["sponsored"]
    BY <2>1, <2>2, <2>4
  <2> QED BY <2>5, <2>6, <2>7 DEF more
<1>13. SponsoredFlowsAreCounted'
  <2>1. Out \subseteq Flows /\ Out' \subseteq Flows /\ f \notin Out
    BY <1>10 DEF Out
  <2>2. CASE Hook(h).mode = "sponsored"
    <3>1. f \in Out'
      BY <1>10, <2>2 DEF Out
    <3>2. Out' = Out \cup {f}
      BY <1>11, <2>1, <3>1
    <3> QED BY <1>0, <1>12, <2>1, <2>2, <3>2, CountedAsStarted DEF WalletInv
  <2>3. CASE Hook(h).mode # "sponsored"
    <3>1. f \notin Out'
      BY <1>10, <2>3 DEF Out
    <3>2. Out' = Out
      BY <1>11, <2>1, <3>1
    <3> QED BY <1>12, <2>3, <3>2, CountedAsBefore DEF WalletInv
  <2> QED BY <2>2, <2>3
<1>14. WalletTyped'
  <2>1. \A g \in Flows : Started(g)' => flow'[g] \in FlowStates \cup EndedFlows
    BY <1>6 DEF Started, Flow, NotStarted
  <2> QED BY <1>6, <1>7, <1>12, <2>1
          DEF Start, pageVars, chainVars, WalletInv, WalletTyped, WalletTypeOK, AccountTypeOK
<1>15. OnlySponsoredExecute'
  <2>1. ASSUME NEW g \in Flows, flow'[g].phase = "executing"
        PROVE  Hook(flow'[g].hook).mode = "sponsored"
    BY <1>2, <1>6, <2>1 DEF WalletInv, OnlySponsoredExecute, HookOf
  <2> QED BY <2>1 DEF OnlySponsoredExecute, HookOf
<1>16. HeldIsTheAccounts' /\ HeldWhereMounted'
  BY DEF Start, pageVars, WalletInv, HeldIsTheAccounts, HeldWhereMounted, Fetches
<1> QED BY <1>9, <1>13, <1>14, <1>15, <1>16 DEF WalletInv

-------------------------------------------------------------------------------
\* The station's own transaction moves the sponsor's coins only.
LEMMA StationIssuesKeeps ==
  ASSUME WalletInv, StationIssues
  PROVE  WalletInv'
<1>1. /\ config' \in Bundles /\ account' \in Accounts \cup {NoAccount} /\ view' \in Views
      /\ held' \in Accounts \cup {NoAccount} /\ fetching' \in BOOLEAN
      /\ cancelled' \in SUBSET Accounts /\ gas' \in Nat
      /\ ui' \in [HookNames -> UiStates] /\ NoNewDone
  BY DEF StationIssues, pageVars, WalletInv, WalletTyped, WalletTypeOK, AccountTypeOK, NoNewDone
<1>2. HeldIsTheAccounts' /\ HeldWhereMounted'
  BY DEF StationIssues, pageVars, WalletInv, HeldIsTheAccounts, HeldWhereMounted, Fetches
<1>3. UNCHANGED <<flow, tel, version, owner>>
  BY DEF StationIssues
<1> QED BY <1>1, <1>2, <1>3, PageMoves

LEMMA VersionsAreNaturals ==
  ASSUME WalletTyped, NEW objects \in SUBSET Objects
  PROVE  UNION {0..version[o] : o \in objects} \subseteq Nat
BY DEF WalletTyped, WalletTypeOK

\* What a builder pins are owned objects at some version.
LEMMA PinsAreObjects ==
  ASSUME WalletTyped, NEW f \in Flows, InFlight(f), NEW pins \in ReadPins(f)
  PROVE  pins \in SUBSET (Objects \X Nat)
<1>1. flow[f].hook \in HookNames /\ flow[f] \in FlowStates
  BY FlowFields
<1>2. HookOf(f).builder.pins \in SUBSET Kinds
  BY <1>1 DEF HookOf, Kinds
<1>3. ASSUME NEW k \in Kinds
      PROVE  ObjectOf(f, k) \in Objects
  <2>1. flow[f].acct \in Accounts /\ flow[f].proof \in Accounts \cup {NoAccount}
    BY <1>1 DEF FlowStates
  <2>2. CASE k = "attestation" /\ flow[f].proof # NoAccount
    BY <2>1, <2>2 DEF ObjectOf, Objects
  <2>3. CASE ~(k = "attestation" /\ flow[f].proof # NoAccount) /\ k = "adminCap" /\ HookOf(f).panel.admin
    BY <2>3 DEF ObjectOf, Objects
  <2>4. CASE ~(k = "attestation" /\ flow[f].proof # NoAccount) /\ ~(k = "adminCap" /\ HookOf(f).panel.admin)
    BY <2>1, <2>4 DEF ObjectOf, Objects
  <2> QED BY <2>2, <2>3, <2>4
<1> DEFINE objects == {ObjectOf(f, k) : k \in HookOf(f).builder.pins}
           upTo == UNION {0..version[o] : o \in objects}
<1>4. objects \in SUBSET Objects
  BY <1>2, <1>3
<1> HIDE DEF objects
<1>5. upTo \subseteq Nat
  BY <1>4, VersionsAreNaturals
<1> HIDE DEF upTo
<1>6. PICK v \in [objects -> upTo] : pins = {<<o, v[o]>> : o \in objects}
  BY DEF ReadPins, objects, upTo
<1>7. \A o \in objects : o \in Objects /\ v[o] \in Nat
  BY <1>4, <1>5, <1>6
<1> QED BY <1>6, <1>7

LEMMA BuildKeeps ==
  ASSUME WalletInv, NEW f \in Flows, Build(f)
  PROVE  WalletInv'
<1>0. WalletTyped /\ InFlight(f) /\ flow[f].phase = "building"
  BY DEF WalletInv, Build, InFlight, Live
<1>1. flow[f] \in FlowStates /\ flow[f].hook \in HookNames /\ flow \in [Flows -> Flow]
  BY <1>0, FlowFields DEF WalletTyped
<1> DEFINE next == IF HookOf(f).mode = "direct" THEN "signing" ELSE "sponsoring"
<1>2. PICK P \in ReadPins(f) : flow' = [flow EXCEPT ![f].pins = P, ![f].phase = next]
  BY DEF Build
<1>3. P \in SUBSET (Objects \X Nat)
  BY <1>0, PinsAreObjects
<1>4. next \in {"signing", "sponsoring"} /\ next \in Steps \ {"done"} /\ next \in Live
  BY DEF Steps, Busy, Live
<1>5. Show(f, next) /\ UNCHANGED <<pageVars, tel, chainVars>>
  BY DEF Build
<1> HIDE DEF next
<1> DEFINE new == [flow[f] EXCEPT !.pins = P, !.phase = next]
<1>6. flow' = [flow EXCEPT ![f] = new]
  BY <1>1, <1>2
<1>7. new \in FlowStates /\ new.hook = flow[f].hook /\ new.phase # "executing"
  BY <1>1, <1>3, <1>4 DEF FlowStates
<1> HIDE DEF new
<1> QED BY <1>0, <1>4, <1>5, <1>6, <1>7, FlowMoves

LEMMA StationSignsKeeps ==
  ASSUME WalletInv, NEW f \in Flows, StationSigns(f)
  PROVE  WalletInv'
<1>0. WalletTyped /\ InFlight(f) /\ flow[f].phase = "sponsoring"
  BY DEF WalletInv, StationSigns, InFlight, Live
<1>1. flow[f] \in FlowStates /\ flow \in [Flows -> Flow] /\ gas \in Nat
  BY <1>0, FlowFields DEF WalletTyped, WalletTypeOK
<1>2. PICK read \in 0..gas :
        flow' = [flow EXCEPT ![f].gasAt = read, ![f].phase = "signing"]
  BY DEF StationSigns
<1> DEFINE new == [flow[f] EXCEPT !.gasAt = read, !.phase = "signing"]
<1>3. flow' = [flow EXCEPT ![f] = new]
  BY <1>1, <1>2
<1>4. new \in FlowStates /\ new.hook = flow[f].hook /\ new.phase = "signing"
  <2>1. read \in Nat
    BY <1>1, <1>2
  <2> QED BY <1>1, <2>1 DEF FlowStates, Live
<1> HIDE DEF new
<1>5. "signing" \in Steps \ {"done"} /\ new.phase # "executing"
  BY <1>4 DEF Steps, Busy
<1>6. Show(f, "signing") /\ UNCHANGED <<pageVars, tel, chainVars>>
  BY DEF StationSigns
<1> QED BY <1>0, <1>3, <1>4, <1>5, <1>6, FlowMoves

LEMMA WalletSignsKeeps ==
  ASSUME WalletInv, NEW f \in Flows, WalletSigns(f)
  PROVE  WalletInv'
<1> DEFINE mine == (account = flow[f].acct)
           new == [flow[f] EXCEPT !.signed = mine, !.phase = "executing"]
<1>0. /\ WalletTyped /\ InFlight(f) /\ flow[f].phase = "signing"
      /\ HookOf(f).mode = "sponsored" /\ mine \in BOOLEAN
  BY DEF WalletInv, WalletSigns, InFlight, Live
<1>1. flow[f] \in FlowStates /\ flow \in [Flows -> Flow]
  BY <1>0, FlowFields DEF WalletTyped
<1>2. flow' = [flow EXCEPT ![f] = new]
  BY <1>1 DEF WalletSigns
<1> HIDE DEF mine
<1>3. new \in FlowStates /\ new.hook = flow[f].hook
  BY <1>0, <1>1 DEF FlowStates, Live
<1> HIDE DEF new
<1>4. "executing" \in Steps \ {"done"}
  BY DEF Steps, Busy
<1>5. Show(f, "executing") /\ UNCHANGED <<pageVars, tel, chainVars>>
  BY DEF WalletSigns
<1> QED BY <1>0, <1>2, <1>3, <1>4, <1>5, FlowMoves

\* A flow whose transaction did not run: the build, the station, the wallet or the
\* chain said no.
LEMMA FailKeeps ==
  ASSUME WalletInv, NEW f \in Flows, InFlight(f), NEW offered \in BOOLEAN, Fail(f, offered),
         UNCHANGED <<pageVars, chainVars>>
  PROVE  WalletInv'
<1>0. WalletTyped /\ flow \in [Flows -> Flow]
  BY DEF WalletInv, WalletTyped
<1>2. flow' = [flow EXCEPT ![f] = End(f, "no")]
  BY DEF Fail
<1>3. /\ gas' \in Nat /\ version' \in [Objects -> Nat]
      /\ owner' \in [Objects -> Accounts \cup {Admin, NoAccount}]
  BY <1>0 DEF WalletTyped, WalletTypeOK, chainVars
<1>4. ShowFailure(f, offered) /\ Count(f, "failed", 1) /\ UNCHANGED pageVars
  BY DEF Fail
<1>5. \E said \in BOOLEAN : /\ ShowFailure(f, said)
                /\ \/ Count(f, "failed", 1)
                   \/ HookOf(f).mode # "sponsored" /\ Count(f, "failed", 2)
  BY <1>4
<1> QED BY <1>2, <1>3, <1>4, <1>5, FlowEnds

LEMMA MoveOnTyped ==
  ASSUME WalletTyped, NEW inputs, MoveOn(inputs)
  PROVE  version' \in [Objects -> Nat]
BY DEF MoveOn, WalletTyped, WalletTypeOK

LEMMA ExecuteKeeps ==
  ASSUME WalletInv, NEW f \in Flows, NEW outcome \in {"ok", "aborted"},
         NEW answered \in BOOLEAN, NEW offered \in BOOLEAN, Execute(f, outcome, answered, offered)
  PROVE  WalletInv'
<1>0. WalletTyped /\ InFlight(f)
  BY DEF WalletInv, Execute, InFlight, Live
<1>1. flow' = [flow EXCEPT ![f] = End(f, outcome)] /\ UNCHANGED pageVars
  BY DEF Execute
<1>2. gas' \in Nat
  BY <1>0, WalletAssumption DEF Execute, WalletTyped, WalletTypeOK
<1>3. version' \in [Objects -> Nat]
  BY <1>0, MoveOnTyped DEF Execute
<1>4. owner' \in [Objects -> Accounts \cup {Admin, NoAccount}]
  BY <1>0 DEF Execute, WalletTyped, WalletTypeOK
<1>5. \/ outcome = "ok" /\ Show(f, "done") /\ Count(f, "done", 1)
      \/ ShowFailure(f, offered) /\ Count(f, "failed", 1)
  BY DEF Execute
<1> QED BY <1>0, <1>1, <1>2, <1>3, <1>4, <1>5, FlowEnds

LEMMA SignAndExecuteKeeps ==
  ASSUME WalletInv, NEW f \in Flows, NEW outcome \in {"ok", "aborted"},
         NEW answered \in BOOLEAN, NEW offered \in BOOLEAN, SignAndExecute(f, outcome, answered, offered)
  PROVE  WalletInv'
<1>0. WalletTyped /\ InFlight(f) /\ HookOf(f).mode = "direct"
  BY DEF WalletInv, SignAndExecute, InFlight, Live
<1>1. /\ flow' = [flow EXCEPT ![f] = End(f, outcome)]
      /\ UNCHANGED pageVars /\ UNCHANGED <<gas, owner>>
  BY DEF SignAndExecute
<1>2. gas' \in Nat /\ owner' \in [Objects -> Accounts \cup {Admin, NoAccount}]
  BY <1>0, <1>1 DEF WalletTyped, WalletTypeOK
<1>3. version' \in [Objects -> Nat]
  BY <1>0, MoveOnTyped DEF SignAndExecute
<1>4. \/ outcome = "ok" /\ Show(f, "done") /\ Count(f, "done", 1)
      \/ ShowFailure(f, offered) /\ (Count(f, "failed", 1) \/ Count(f, "failed", 2))
  BY DEF SignAndExecute
<1>5. \/ outcome = "ok" /\ Show(f, "done") /\ Count(f, "done", 1)
      \/ \E said \in BOOLEAN : /\ ShowFailure(f, said)
                   /\ \/ Count(f, "failed", 1)
                      \/ HookOf(f).mode # "sponsored" /\ Count(f, "failed", 2)
  BY <1>0, <1>4
<1> QED BY <1>0, <1>1, <1>2, <1>3, <1>5, FlowEnds

LEMMA WalletInvInit == WalletInit => WalletInv
<1> SUFFICES ASSUME WalletInit PROVE WalletInv
  OBVIOUS
<1>1. \A f \in Flows : ~Started(f) /\ ~InFlight(f) /\ flow[f].phase = "none"
  BY DEF WalletInit, NotStarted, Started, InFlight, Live
<1>2. \A h \in HookNames : ui[h].step # "done"
  BY IdleShowsNothing DEF WalletInit
<1>3. [started |-> 0, done |-> 0, failed |-> 0] \in Counters
  BY DEF Counters
<1>4. WalletTyped
  <2>1. flow \in [Flows -> Flow]
    BY DEF WalletInit, Flow
  <2>2. gas \in Nat
    BY WalletAssumption DEF WalletInit
  <2>3. ui \in [HookNames -> UiStates] /\ tel \in [{"sponsored", "direct"} -> Counters]
    BY <1>3, IdleShowsNothing DEF WalletInit
  <2>4. version \in [Objects -> Nat] /\ owner \in [Objects -> Accounts \cup {Admin, NoAccount}]
    BY DEF WalletInit, Objects
  <2>5. held \in Accounts \cup {NoAccount} /\ fetching \in BOOLEAN /\ cancelled \in SUBSET Accounts
    BY DEF WalletInit, Fetches
  <2> QED BY <1>1, <2>1, <2>2, <2>3, <2>4, <2>5 DEF WalletInit, WalletTyped, WalletTypeOK
<1>5. SponsoredFlowsAreCounted
  <2>1. Out = {}
    BY <1>1 DEF Out
  <2>2. Cardinality(Out) = 0
    BY <2>1, FS_EmptySet
  <2> QED BY <2>2 DEF SponsoredFlowsAreCounted, Out, WalletInit
<1>6. DoneIsOnChain /\ DoneIsAFlow
  BY <1>2 DEF DoneIsOnChain, DoneIsAFlow
<1>7. OnlySponsoredExecute
  BY <1>1 DEF OnlySponsoredExecute
<1>8. HeldIsTheAccounts /\ HeldWhereMounted
  BY DEF WalletInit, HeldIsTheAccounts, HeldWhereMounted
<1> QED BY <1>4, <1>5, <1>6, <1>7, <1>8 DEF WalletInv

LEMMA WalletInvStutter ==
  ASSUME WalletInv, UNCHANGED walletVars
  PROVE  WalletInv'
<1>1. /\ config' \in Bundles /\ account' \in Accounts \cup {NoAccount} /\ view' \in Views
      /\ held' \in Accounts \cup {NoAccount} /\ fetching' \in BOOLEAN
      /\ cancelled' \in SUBSET Accounts /\ gas' \in Nat
      /\ ui' \in [HookNames -> UiStates] /\ NoNewDone
  BY DEF walletVars, WalletInv, WalletTyped, WalletTypeOK, AccountTypeOK, NoNewDone
<1>2. HeldIsTheAccounts' /\ HeldWhereMounted'
  BY DEF walletVars, WalletInv, HeldIsTheAccounts, HeldWhereMounted, Fetches
<1>3. UNCHANGED <<flow, tel, version, owner>>
  BY DEF walletVars
<1> QED BY <1>1, <1>2, <1>3, PageMoves

LEMMA WalletInvStep == WalletInv /\ [WalletNext]_walletVars => WalletInv'
<1> SUFFICES ASSUME WalletInv, [WalletNext]_walletVars PROVE WalletInv'
  OBVIOUS
<1>1. CASE Page
  <2>1. CASE \E a \in Accounts \cup {NoAccount} : SwitchAccount(a)
    BY <2>1, SwitchAccountKeeps
  <2>2. CASE \E found \in BOOLEAN : AttestationsArrive(found)
    BY <2>2, AttestationsArriveKeeps
  <2>7. CASE \E of \in Accounts, found \in BOOLEAN : CancelledArrive(of, found)
    BY <2>7, CancelledArriveKeeps
  <2>3. CASE \E v \in Views : OpenView(v)
    BY <2>3, OpenViewKeeps
  <2>4. CASE \E h \in HookNames : RefuseForConfig(h)
    BY <2>4, RefuseForConfigKeeps
  <2>5. CASE \E h \in HookNames : Clear(h)
    BY <2>5, ClearKeeps
  <2>6. CASE \E h \in HookNames : \E f \in Flows : Start(h, f)
    BY <2>6, StartKeeps
  <2> QED BY <1>1, <2>1, <2>2, <2>3, <2>4, <2>5, <2>6, <2>7 DEF Page
<1>2. CASE StationIssues
  BY <1>2, StationIssuesKeeps
<1>3. ASSUME NEW f \in Flows, FlowStep(f) PROVE WalletInv'
  <2>1. CASE Build(f)
    BY <2>1, BuildKeeps
  <2>2. CASE StationSigns(f)
    BY <2>2, StationSignsKeeps
  <2>3. CASE WalletSigns(f)
    BY <2>3, WalletSignsKeeps
  <2>4. CASE \E m \in BOOLEAN : \/ BuildFails(f, m) \/ StationRefuses(f, m)
                               \/ WalletRefuses(f, m) \/ ExecuteRefused(f, m)
    <3>1. PICK m \in BOOLEAN : Fail(f, m) /\ UNCHANGED <<pageVars, chainVars>>
      BY <2>4 DEF BuildFails, StationRefuses, WalletRefuses, ExecuteRefused
    <3>2. InFlight(f)
      BY <1>3 DEF FlowStep
    <3> QED BY <3>1, <3>2, FailKeeps
  <2>5. ASSUME NEW outcome \in {"ok", "aborted"}, NEW answered \in BOOLEAN, NEW m \in BOOLEAN,
               Execute(f, outcome, answered, m) \/ SignAndExecute(f, outcome, answered, m)
        PROVE  WalletInv'
    BY <2>5, ExecuteKeeps, SignAndExecuteKeeps
  <2>6. \A phase \in DOMAIN PhaseMessages : RetryAfter(f, phase) \subseteq BOOLEAN
    BY DEF RetryAfter, OffersRetry
  <2>7. {"building", "sponsoring", "signing", "executing"} \subseteq DOMAIN PhaseMessages
    BY DEF PhaseMessages
  <2>8. \/ Build(f) \/ StationSigns(f) \/ WalletSigns(f)
        \/ \E m \in BOOLEAN : \/ BuildFails(f, m) \/ StationRefuses(f, m)
                              \/ WalletRefuses(f, m) \/ ExecuteRefused(f, m)
        \/ \E outcome \in {"ok", "aborted"}, answered \in BOOLEAN, m \in BOOLEAN :
             Execute(f, outcome, answered, m) \/ SignAndExecute(f, outcome, answered, m)
    BY <1>3, <2>6, <2>7 DEF FlowStep
  <2> QED BY <2>1, <2>2, <2>3, <2>4, <2>5, <2>8
<1>4. CASE UNCHANGED walletVars
  BY <1>4, WalletInvStutter
<1> QED BY <1>1, <1>2, <1>3, <1>4 DEF WalletNext

\* Everything the theorems below need of each other: how the flows, what is shown of
\* them, the counters and the attestation held hang together at every moment.
THEOREM WalletInvariant == WalletSpec => []WalletInv
<1>1. WalletInit => WalletInv
  BY WalletInvInit
<1>2. WalletInv /\ [WalletNext]_walletVars => WalletInv'
  BY WalletInvStep
<1> QED BY <1>1, <1>2, PTL DEF WalletSpec

\* A transaction of the client, the counters, the chain and what is shown keep
\* their types.
THEOREM WalletTypes == WalletSpec => []WalletTypeOK
<1>1. WalletInv => WalletTypeOK
  BY DEF WalletInv, WalletTyped
<1> QED BY <1>1, WalletInvariant, PTL

\* What a hook shows as done is a flow of its own that succeeded on chain: a flow
\* is never taken back once it is over, and only an executed one is shown so.
THEOREM DoneWasExecuted == WalletSpec => []DoneIsOnChain
<1>1. WalletInv => DoneIsOnChain
  BY DEF WalletInv
<1> QED BY <1>1, WalletInvariant, PTL

\* Started is done plus failed plus on the way, for the sponsored flows: each way
\* out of a flow counts once, whatever is shown and wherever the page is.
THEOREM FlowsCounted == WalletSpec => []SponsoredFlowsAreCounted
<1>1. WalletInv => SponsoredFlowsAreCounted
  BY DEF WalletInv
<1> QED BY <1>1, WalletInvariant, PTL

\* Once no fetch runs, the attestation that the passage panel offers is the
\* connected account's, however often the wallet and the page changed.
THEOREM HeldByTheAccount == WalletSpec => []HeldIsTheAccounts
<1>1. WalletInv => HeldIsTheAccounts
  BY DEF WalletInv
<1> QED BY <1>1, WalletInvariant, PTL
===============================================================================
