------------------------------ MODULE GateAuthority ----------------------------
(***************************************************************************)
(* What the connected wallet may administer, as the web client finds out:  *)
(* the GatePolicies whose GateAdminCap it holds (useOperatorGatePolicies,  *)
(* useGateAdminCaps) and the world gates whose OwnerCap it or its character*)
(* holds (useOperatorGateAuthority, discoverOperatorGateAuthority).        *)
(*                                                                         *)
(* Both run once per connected account.  A read that is still on its way   *)
(* when the account changes is cancelled: its answer is dropped.  Nothing  *)
(* is read again when a cap changes hands, and a read takes several pages, *)
(* from a node that may lag: of what has changed hands it finds some of    *)
(* what the account holds or has held.                                     *)
(***************************************************************************)
EXTENDS ConnectedWallet, Sequences, FiniteSets, SequencesExt

CONSTANTS
    Policies,       \* GatePolicies
    Gates,          \* world gates
    Characters,     \* accounts with a player profile and a character
    FirstOwnership, \* who holds which cap in the beginning
    MaxSwitches     \* bound on changes of the connected account

\* NoAccount stands for whoever else may hold a cap.
Ownership ==
    [cap   : [Policies -> Accounts \cup {NoAccount}],  \* the GateAdminCap of a policy
     gate  : [Gates -> Accounts \cup {NoAccount}],     \* the OwnerCap of a gate
     place : [Gates -> {"wallet", "character"}]]       \* where its holder keeps it

ASSUME AuthorityAssumption ==
    /\ Characters \subseteq Accounts
    /\ IsFiniteSet(Policies)
    /\ FirstOwnership \in Ownership
    /\ MaxSwitches \in Nat

VARIABLES
    ownership,  \* chain: who holds which cap
    former,     \* history: what it was before
    switches,   \* how often it changed
    asked,      \* accounts whose GateAdminCaps are being listed
    caps,       \* what the listing found
    probing,    \* accounts whose gate authority is being discovered
    auth        \* what the discovery found

authorityVars == <<account, switches, asked, caps, probing, auth>>

Known == former \cup {ownership}

\* What a has held at some time, and what it has held at all times.
PoliciesOf(a) == {p \in Policies : \E o \in Known : o.cap[p] = a}
KeptPolicies(a) == {p \in Policies : \A o \in Known : o.cap[p] = a}
GatesOf(a, place) ==
    {g \in Gates : \E o \in Known : o.gate[g] = a /\ o.place[g] = place}
KeptGates(a, place) ==
    {g \in Gates : \A o \in Known : o.gate[g] = a /\ o.place[g] = place}

\* What the reads of caps may find, of which no order changes.
CapsListed(a) == {S \in SUBSET PoliciesOf(a) : KeptPolicies(a) \subseteq S}
OwnerCapsListed(a, place) ==
    {S \in SUBSET GatesOf(a, place) : KeptGates(a, place) \subseteq S}

\* Results are kept with the account they are about.
CapStates == [of : Accounts \cup {NoAccount},
              status : {"empty", "loading", "listed", "failed"},
              list : Seq(Policies)]

NoCaps == [of |-> NoAccount, status |-> "empty", list |-> <<>>]

Authorities ==
    [of : Accounts \cup {NoAccount},
     status : {"wallet_not_connected", "checking_character", "checking_gate_caps",
               "no_character", "no_gate_authority", "gate_authority_found",
               "query_failed"},
     character : BOOLEAN,       \* its character was read
     gates : SUBSET Gates,      \* gates with an OwnerCap that were read
     lent : SUBSET Gates]       \* those whose cap lies with the character

NotConnected == [of |-> NoAccount, status |-> "wallet_not_connected",
                 character |-> FALSE, gates |-> {}, lent |-> {}]

Connected(a, status) == [NotConnected EXCEPT !.of = a, !.status = status]

AuthorityInit ==
    /\ ownership = FirstOwnership /\ former = {}
    /\ account = NoAccount /\ switches = 0
    /\ asked = {} /\ caps = NoCaps
    /\ probing = {} /\ auth = NotConnected

\* Mutant: the list stays until the next one arrives.
LoadKeepsList(a) ==
    IF a = NoAccount
    THEN /\ caps' = NoCaps /\ auth' = NotConnected
         /\ UNCHANGED <<asked, probing>>
    ELSE /\ caps' = [of |-> a, status |-> "loading", list |-> caps.list]
         /\ asked' = asked \cup {a}
         /\ auth' = Connected(a, "checking_character")
         /\ probing' = probing \cup {a}

\* Both effects start again for the account: what was found before is gone.
Load(a) ==
    IF a = NoAccount
    THEN /\ caps' = NoCaps /\ auth' = NotConnected
         /\ UNCHANGED <<asked, probing>>
    ELSE /\ caps' = [of |-> a, status |-> "loading", list |-> <<>>]
         /\ asked' = asked \cup {a}
         /\ auth' = Connected(a, "checking_character")
         /\ probing' = probing \cup {a}

\* Elsewhere, or from a panel of this client, a cap changes hands or place: the
\* page is not told.
CapMoves ==
    /\ former' = former \cup {ownership}
    /\ \E x \in Accounts \cup {NoAccount} :
          \/ \E p \in Policies :
                /\ ownership.cap[p] # x
                /\ ownership' = [ownership EXCEPT !.cap[p] = x]
          \/ \E g \in Gates, place \in {"wallet", "character"} :
                /\ place = "character" => x \in Characters \cup {NoAccount}
                /\ ownership.gate[g] # x \/ ownership.place[g] # place
                /\ ownership' = [ownership EXCEPT !.gate[g] = x, !.place[g] = place]

Connect(a) ==
    /\ a # account /\ switches < MaxSwitches
    /\ account' = a /\ switches' = switches + 1
    /\ Load(a)

-------------------------------------------------------------------------------
\* Mutant: the cancelled flag is not looked at.
WriteAlways(a, old, new) == new

\* An answer for an account that is no longer connected is dropped.
WriteCurrent(a, old, new) == IF a = account THEN new ELSE old

\* The listing ends, after its last page or with the first page that fails.
CapsArrive(a, ok) ==
    /\ a \in asked /\ asked' = asked \ {a}
    /\ \E found \in CapsListed(a) :
          caps' = WriteCurrent(a, caps,
              IF ok THEN [of |-> a, status |-> "listed", list |-> SetToSeq(found)]
              ELSE [of |-> a, status |-> "failed", list |-> <<>>])
    /\ UNCHANGED <<account, switches, probing, auth>>

\* The profiles are listed, their characters read; no profile ends the discovery.
\* A character that cannot be read is left out with a warning.
CharactersArrive(a, read) ==
    /\ a \in probing
    /\ auth.of = a => auth.status = "checking_character"
    /\ IF a \in Characters /\ read
       THEN /\ auth' = WriteCurrent(a, auth,
                   [Connected(a, "checking_gate_caps") EXCEPT !.character = TRUE])
            /\ UNCHANGED probing
       ELSE /\ auth' = WriteCurrent(a, auth, Connected(a, "no_character"))
            /\ probing' = probing \ {a}
    /\ UNCHANGED <<account, switches, asked, caps>>

finalStatus(owned) ==
    IF owned = {} THEN "no_gate_authority" ELSE "gate_authority_found"

\* OwnerCaps of the wallet and of the character, then the gate of each.  A failed
\* listing of the character's caps, or a gate that cannot be read, leaves out
\* what it would have found.
GatesArrive(a, inWallet, withCharacter, read) ==
    /\ a \in probing
    /\ auth.of = a => auth.status = "checking_gate_caps"
    /\ inWallet \in OwnerCapsListed(a, "wallet")
    /\ withCharacter \in {{}} \cup OwnerCapsListed(a, "character")
    /\ read \subseteq inWallet \cup withCharacter
    /\ probing' = probing \ {a}
    /\ auth' = WriteCurrent(a, auth,
           [of |-> a, status |-> finalStatus(inWallet \cup withCharacter),
            character |-> TRUE, gates |-> read, lent |-> read \cap withCharacter])
    /\ UNCHANGED <<account, switches, asked, caps>>

\* A listing of profiles or of the wallet's caps fails.
AuthorityFails(a) ==
    /\ a \in probing /\ probing' = probing \ {a}
    /\ auth' = WriteCurrent(a, auth, Connected(a, "query_failed"))
    /\ UNCHANGED <<account, switches, asked, caps>>

Discover(a) ==
    \/ \E ok \in BOOLEAN : CapsArrive(a, ok)
    \/ \E read \in BOOLEAN : CharactersArrive(a, read)
    \/ \E inWallet, withCharacter, read \in SUBSET Gates :
           GatesArrive(a, inWallet, withCharacter, read)
    \/ AuthorityFails(a)
===============================================================================
