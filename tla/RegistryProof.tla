----------------------------- MODULE RegistryProof -----------------------------
(* Theorems about Registry, for all tickets, owners, addresses and chains.     *)
EXTENDS Registry, TLAPS

\* Tickets that had to be registered by now: the listed ones, and those of the L1 calls
\* handled.
Registered ==
  \A t \in Tickets :
    /\ Content(t) = "listed" => t \in tickets
    /\ Content(t) # "bare" /\ (\E i \in 1 .. called : script.calls[i].ticket = t) => t \in tickets

\* No ticket has two tokens.
OneToken == \A p, q \in Owners : tokens[p] # None /\ tokens[p] = tokens[q] => p = q

\* The inductive invariant.
RegistryInv == TypeOK /\ NeverMisclassified /\ Registered /\ OneToken /\ CreditsExplained

-----------------------------------------------------------------------------
(* Parts of a step.                                                        *)

LEMMA Element ==
  ASSUME NEW S, NEW s \in Seq(S)
  PROVE  Len(s) \in Nat /\ DOMAIN s = 1 .. Len(s) /\ \A i \in 1 .. Len(s) : s[i] \in S
OBVIOUS

\* The facts of a script, taken apart.
LEMMA ScriptFacts ==
  ASSUME script \in Scripts
  PROVE  /\ script.contents \in [Tickets -> Contents] /\ script.kinds \in [Addresses -> Kinds]
         /\ script.runtime \in BOOLEAN
         /\ script.calls \in Seq([ticket : Tickets, receiver : Addresses])
         /\ script.credits \in Seq([call : Nat, owner : Owners, receiver : Addresses])
         /\ script.withdrawals \in Seq([ticket : Tickets, sender : Addresses])
         /\ \A i \in 1 .. Len(script.calls) :
              script.calls[i].ticket \in Tickets /\ script.calls[i].receiver \in Addresses
         /\ \A w \in 1 .. Len(script.withdrawals) : script.withdrawals[w].sender \in Addresses
         /\ \A c \in DOMAIN script.credits :
              /\ script.credits[c].call \in DOMAIN script.calls
              /\ script.credits[c].owner \in Owners
              /\ script.credits[c].receiver \in Addresses
              /\ TicketOf(script.credits[c]) \in Tickets
         /\ ~script.runtime => \A a \in Addresses : script.kinds[a] = "native"
<1>1. script \in Facts
  BY ScriptsAssumption
<1>2. /\ script.contents \in [Tickets -> Contents] /\ script.kinds \in [Addresses -> Kinds]
      /\ script.runtime \in BOOLEAN
      /\ script.calls \in Seq([ticket : Tickets, receiver : Addresses])
      /\ script.credits \in Seq([call : Nat, owner : Owners, receiver : Addresses])
      /\ script.withdrawals \in Seq([ticket : Tickets, sender : Addresses])
  BY <1>1 DEF Facts
<1>3. /\ \A c \in DOMAIN script.credits : script.credits[c].call \in DOMAIN script.calls
      /\ ~script.runtime => \A a \in Addresses : script.kinds[a] = "native"
  BY ScriptsAssumption
<1>4. \A i \in 1 .. Len(script.calls) : script.calls[i] \in [ticket : Tickets, receiver : Addresses]
  BY <1>2, Element
<1>5. \A w \in 1 .. Len(script.withdrawals) :
        script.withdrawals[w] \in [ticket : Tickets, sender : Addresses]
  BY <1>2, Element
<1>6. \A c \in 1 .. Len(script.credits) :
        script.credits[c] \in [call : Nat, owner : Owners, receiver : Addresses]
  BY <1>2, Element
<1>7. /\ DOMAIN script.calls = 1 .. Len(script.calls)
      /\ DOMAIN script.credits = 1 .. Len(script.credits)
  BY <1>2, Element
<1>8. \A c \in DOMAIN script.credits :
        /\ script.credits[c].owner \in Owners /\ script.credits[c].receiver \in Addresses
        /\ TicketOf(script.credits[c]) \in Tickets
  BY <1>3, <1>4, <1>6, <1>7 DEF TicketOf
<1>9. /\ \A i \in 1 .. Len(script.calls) :
           script.calls[i].ticket \in Tickets /\ script.calls[i].receiver \in Addresses
      /\ \A w \in 1 .. Len(script.withdrawals) : script.withdrawals[w].sender \in Addresses
  BY <1>4, <1>5
<1> QED
  BY <1>2, <1>3, <1>8, <1>9

\* Seeing an address keeps its row true and the due rows unknown.
LEMMA SightKeeps ==
  ASSUME TypeOK, NeverMisclassified, NEW a \in Addresses, Sight(a), script' = script
  PROVE  /\ accounts' \in [Addresses -> Kinds \cup {"absent", "unknown"}]
         /\ due' \subseteq {b \in Addresses : accounts'[b] = "unknown"}
         /\ NeverMisclassified'
<1>1. script.kinds[a] \in Kinds /\ (~script.runtime => script.kinds[a] = "native")
  BY ScriptFacts DEF TypeOK
<1>2. Resolve(a) \in {"unknown", script.kinds[a]}
  BY <1>1 DEF Resolve, Cached, NeverMisclassified, Kinds
<1>3. Resolve(a) = "unknown" => script.runtime
  BY DEF Resolve
<1>4. /\ accounts' = [accounts EXCEPT ![a] = Resolve(a)]
      /\ accounts \in [Addresses -> Kinds \cup {"absent", "unknown"}]
      /\ due \subseteq {b \in Addresses : accounts[b] = "unknown"}
  BY DEF Sight, TypeOK
<1>5. accounts' \in [Addresses -> Kinds \cup {"absent", "unknown"}]
  BY <1>1, <1>2, <1>4
<1>6. a \in due' => accounts'[a] = "unknown"
  <2>1. SUFFICES ASSUME a \in due' PROVE Resolve(a) = "unknown"
    BY <1>4
  <2>2. ~Queried(a) /\ accounts[a] = "unknown"
    BY <2>1, <1>4 DEF Sight
  <2> QED
    BY <2>2 DEF Queried, NeverMisclassified, Resolve
<1>7. due' \subseteq due
  BY DEF Sight
<1>8. due' \subseteq {b \in Addresses : accounts'[b] = "unknown"}
  BY <1>4, <1>6, <1>7
<1>9. NeverMisclassified'
  <2> SUFFICES ASSUME NEW b \in Addresses
               PROVE  /\ accounts'[b] \in {"absent", "unknown", script.kinds[b]}
                      /\ accounts'[b] = "unknown" => script.runtime
    BY DEF NeverMisclassified
  <2> QED
    BY <1>2, <1>3, <1>4 DEF NeverMisclassified
<1> QED
  BY <1>5, <1>8, <1>9

\* The rows of accounts not touched stay true.
LEMMA AccountsKept ==
  ASSUME NeverMisclassified, script' = script, accounts' = accounts
  PROVE  NeverMisclassified'
BY DEF NeverMisclassified

\* Explanations stay true while tickets and tokens are only added.
LEMMA ExplainedKept ==
  ASSUME CreditsExplained, script' = script, credited' = credited, tokens' = tokens
  PROVE  CreditsExplained'
BY DEF CreditsExplained, TicketOf, Content

\* So do the tickets due, while no further call is handled.
LEMMA RegisteredKept ==
  ASSUME Registered, script' = script, called' = called, tickets \subseteq tickets'
  PROVE  Registered'
BY DEF Registered, Content

LEMMA OneTokenKept ==
  ASSUME OneToken, tokens' = tokens
  PROVE  OneToken'
BY DEF OneToken

-----------------------------------------------------------------------------
(* The invariant.                                                          *)

LEMMA InitRegistryInv == Init => RegistryInv
<1> SUFFICES ASSUME Init PROVE RegistryInv
  OBVIOUS
<1>1. TypeOK
  <2>1. /\ 0 \in 0 .. Len(script.calls) /\ 0 \in 0 .. Len(script.withdrawals)
        /\ Len(<<>>) <= Len(script.credits) /\ <<>> \in Seq(Rows)
    BY ScriptFacts, Element DEF Init
  <2> QED
    <3>1. tokens \in [Owners -> Tickets \cup {None}] /\ tickets \subseteq Tickets
      BY DEF Init
    <3>2. accounts \in [Addresses -> Kinds \cup {"absent", "unknown"}]
      BY DEF Init
    <3>3. credited \in Seq(Rows) /\ Len(credited) <= Len(script.credits)
      BY <2>1 DEF Init
    <3>4. faults \in 0 .. MaxFaults
      BY FaultsAssumption DEF Init
    <3> QED
      BY <2>1, <3>1, <3>2, <3>3, <3>4 DEF Init, TypeOK
<1> QED
  BY <1>1 DEF Init, RegistryInv, NeverMisclassified, Registered, OneToken, CreditsExplained

\* The call handled next registers its ticket.
LEMMA RollupCallKeeps ==
  ASSUME RegistryInv, OnRollupCall
  PROVE  RegistryInv'
<1> DEFINE call == NextCall
<1>1. /\ TypeOK /\ NeverMisclassified /\ Registered /\ OneToken /\ CreditsExplained
      /\ script' = script /\ credited' = credited /\ tokens' = tokens /\ called' = called + 1
  BY DEF RegistryInv, OnRollupCall
<1>2. called + 1 \in 1 .. Len(script.calls) /\ called \in Nat /\ Len(script.calls) \in Nat
  BY <1>1, ScriptFacts DEF OnRollupCall, TypeOK
<1>3. call.ticket \in Tickets /\ call.receiver \in Addresses
  BY <1>1, <1>2, ScriptFacts DEF TypeOK, NextCall
<1>4. /\ Sight(call.receiver) /\ tickets' = Fetch(call.ticket)
      /\ Content(call.ticket) \notin Deadly
  BY DEF OnRollupCall
<1>5. /\ accounts' \in [Addresses -> Kinds \cup {"absent", "unknown"}]
      /\ due' \subseteq {b \in Addresses : accounts'[b] = "unknown"}
      /\ NeverMisclassified'
  BY <1>1, <1>3, <1>4, SightKeeps
<1>6. TypeOK'
  BY <1>1, <1>2, <1>3, <1>4, <1>5 DEF OnRollupCall, TypeOK, Fetch, chains, process
<1>7. Registered'
  <2> SUFFICES ASSUME NEW t \in Tickets
               PROVE  /\ Content(t) = "listed" => t \in tickets'
                      /\ Content(t) # "bare" /\ (\E i \in 1 .. called' : script.calls[i].ticket = t)
                           => t \in tickets'
    BY <1>1 DEF Registered, Content
  <2>1. tickets \subseteq tickets'
    BY <1>4 DEF Fetch
  <2>2. ASSUME Content(t) # "bare", NEW i \in 1 .. called', script.calls[i].ticket = t
        PROVE  t \in tickets'
    <3>1. CASE i = called + 1
      <4>1. t = call.ticket /\ Registrable(t)
        BY <1>4, <2>2, <3>1 DEF NextCall, Registrable
      <4> QED
        BY <1>4, <4>1 DEF Fetch
    <3>2. CASE i \in 1 .. called
      BY <1>1, <2>1, <2>2, <3>2 DEF Registered
    <3> QED
      BY <1>1, <1>2, <3>1, <3>2
  <2> QED
    BY <1>1, <2>1, <2>2 DEF Registered
<1>8. OneToken' /\ CreditsExplained'
  BY <1>1, OneTokenKept, ExplainedKept
<1> QED
  BY <1>5, <1>6, <1>7, <1>8 DEF RegistryInv

\* A credit gives an owner the ticket that has no token yet, and its row says why it got
\* the status it has.
LEMMA DepositKeeps ==
  ASSUME RegistryInv, OnDeposit
  PROVE  RegistryInv'
<1> DEFINE c == Len(credited) + 1
           credit == script.credits[c]
           row == Row(credit)
<1>1. /\ TypeOK /\ NeverMisclassified /\ Registered /\ OneToken /\ CreditsExplained
      /\ script' = script /\ called' = called /\ tickets' = tickets
      /\ credit = NextCredit
  BY DEF RegistryInv, OnDeposit, NextCredit
<1>2. /\ credited \in Seq(Rows) /\ Len(credited) \in Nat /\ Len(script.credits) \in Nat
      /\ c \in DOMAIN script.credits
  BY <1>1, ScriptFacts DEF OnDeposit, TypeOK
<1>3. /\ credit.owner \in Owners /\ credit.receiver \in Addresses
      /\ credit.call \in DOMAIN script.calls /\ TicketOf(credit) \in Tickets
  BY <1>1, <1>2, ScriptFacts DEF TypeOK
<1>4. /\ Sight(credit.receiver) /\ credited' = Append(credited, row)
      /\ tokens' = IF NewToken(credit)
                     THEN [tokens EXCEPT ![credit.owner] = TicketOf(credit)] ELSE tokens
  BY <1>1 DEF OnDeposit
<1>5. /\ accounts' \in [Addresses -> Kinds \cup {"absent", "unknown"}]
      /\ due' \subseteq {b \in Addresses : accounts'[b] = "unknown"}
      /\ NeverMisclassified'
  BY <1>1, <1>3, <1>4, SightKeeps
<1>6. tokens \in [Owners -> Tickets \cup {None}] /\ tokens' \in [Owners -> Tickets \cup {None}]
  BY <1>1, <1>3, <1>4 DEF TypeOK
<1>7. row \in Rows
  BY <1>1, <1>3 DEF Row, Rows, TypeOK
<1>8. TypeOK'
  <2>1. credited' \in Seq(Rows) /\ Len(credited') = c
    BY <1>2, <1>4, <1>7
  <2>2. Len(credited') <= Len(script.credits)
    BY <1>2, <2>1
  <2> QED
    BY <1>1, <1>5, <1>6, <2>1, <2>2 DEF OnDeposit, TypeOK, chains, process
<1>9. Registered'
  BY <1>1, RegisteredKept
<1>10. None \notin Tickets /\ None \notin Owners
  BY NoneAssumption
<1>11. /\ \A p \in Owners : tokens[p] # None => tokens'[p] = tokens[p]
       /\ NewToken(credit) => tokens'[credit.owner] = TicketOf(credit)
       /\ \A p \in Owners : tokens'[p] # tokens[p] => NewToken(credit) /\ p = credit.owner
  BY <1>3, <1>4, <1>6 DEF NewToken
<1>12. OneToken'
  BY <1>1, <1>11, <1>10, <1>3 DEF OneToken, NewToken
<1>13. CreditsExplained'
  <2> SUFFICES ASSUME NEW d \in DOMAIN credited'
               PROVE  LET old == script.credits[d]  r == credited'[d] IN
                      /\ r.ticket = None =>
                           \/ Content(TicketOf(old)) = "bare"
                           \/ (Content(TicketOf(old)) # "listed" /\ r.after < old.call)
                      /\ r.ticket # None /\ r.token = None =>
                           \/ old.owner = old.receiver
                           \/ \E p \in Owners \ {old.owner} : tokens'[p] = r.ticket
                      /\ r.token # None =>
                           /\ r.token = old.owner /\ old.owner # old.receiver
                           /\ tokens'[r.token] # None
                           /\ \A p \in Owners \ {r.token} : tokens'[p] # tokens'[r.token]
    BY <1>1 DEF CreditsExplained, TicketOf, Content
  <2>1. d \in DOMAIN script.credits
    BY <1>2, <1>4
  <2>2. script.credits[d].owner \in Owners
    BY <1>1, <2>1, ScriptFacts DEF TypeOK
  <2>3. CASE d \in DOMAIN credited
    <3>1. credited'[d] = credited[d] /\ credited[d] \in Rows
      BY <1>2, <1>4, <2>3
    <3> DEFINE old == script.credits[d]
               r == credited[d]
    <3>2. /\ r.ticket = None =>
               \/ Content(TicketOf(old)) = "bare"
               \/ (Content(TicketOf(old)) # "listed" /\ r.after < old.call)
          /\ r.ticket # None /\ r.token = None =>
               \/ old.owner = old.receiver
               \/ \E p \in Owners \ {old.owner} : tokens[p] = r.ticket
          /\ r.token # None =>
               /\ r.token = old.owner /\ old.owner # old.receiver
               /\ tokens[r.token] # None
      BY <1>1, <2>3 DEF CreditsExplained
    <3>3. r.ticket # None /\ r.token = None /\ old.owner # old.receiver =>
            \E p \in Owners \ {old.owner} : tokens'[p] = r.ticket
      BY <3>2, <1>11
    <3>4. ASSUME r.token # None
          PROVE  /\ tokens'[r.token] # None
                 /\ \A p \in Owners \ {r.token} : tokens'[p] # tokens'[r.token]
      BY <3>2, <3>4, <2>2, <1>11, <1>12 DEF OneToken
    <3> QED
      BY <3>1, <3>2, <3>3, <3>4
  <2>4. CASE d = c
    <3>1. credited'[d] = row
      BY <1>2, <1>4, <2>4
    <3>2. ASSUME row.ticket = None
          PROVE  \/ Content(TicketOf(credit)) = "bare"
                 \/ (Content(TicketOf(credit)) # "listed" /\ row.after < credit.call)
      <4>1. TicketOf(credit) \notin tickets
        BY <3>2, <1>3, <1>10 DEF Row
      <4>2. Content(TicketOf(credit)) # "listed"
        BY <4>1, <1>1, <1>3 DEF Registered
      <4>3. row.after = called /\ called \in Nat /\ credit.call \in Nat \ {0}
        BY <1>1, <1>3, ScriptFacts DEF Row, TypeOK
      <4>4. ASSUME Content(TicketOf(credit)) # "bare"
            PROVE  called < credit.call
        BY <4>1, <4>3, <4>4, <1>1, <1>3 DEF Registered, TicketOf
      <4> QED
        BY <4>2, <4>3, <4>4
    <3>3. ASSUME row.ticket # None, row.token = None, credit.owner # credit.receiver
          PROVE  \E p \in Owners \ {credit.owner} : tokens'[p] = row.ticket
      <4>1. row.ticket = TicketOf(credit) /\ TicketOf(credit) \in tickets
        BY <3>3 DEF Row
      <4>2. tokens[credit.owner] = None /\ ~NewToken(credit)
        BY <3>3, <4>1, <1>3, <1>10 DEF Row, Proxied
      <4>3. PICK p \in Owners : tokens[p] = TicketOf(credit)
        BY <4>1, <4>2, <3>3 DEF NewToken, Proxied
      <4>4. p # credit.owner /\ tokens'[p] = tokens[p]
        BY <4>2, <4>3, <1>3, <1>10, <1>11
      <4> QED
        BY <4>1, <4>3, <4>4
    <3>4. ASSUME row.token # None
          PROVE  /\ row.token = credit.owner /\ credit.owner # credit.receiver
                 /\ tokens'[row.token] # None
                 /\ \A p \in Owners \ {row.token} : tokens'[p] # tokens'[row.token]
      <4>1. row.token = credit.owner /\ credit.owner # credit.receiver
            /\ (tokens[credit.owner] # None \/ NewToken(credit))
        BY <3>4 DEF Row, Proxied
      <4>2. tokens'[credit.owner] # None
        BY <4>1, <1>3, <1>10, <1>11
      <4> QED
        BY <4>1, <4>2, <1>3, <1>12 DEF OneToken
    <3> QED
      BY <2>4, <3>1, <3>2, <3>3, <3>4
  <2> QED
    BY <1>2, <1>4, <2>3, <2>4
<1> QED
  BY <1>5, <1>8, <1>9, <1>12, <1>13 DEF RegistryInv

LEMMA NextRegistryInv == RegistryInv /\ [Next]_vars => RegistryInv'
<1> SUFFICES ASSUME RegistryInv, [Next]_vars PROVE RegistryInv'
  OBVIOUS
<1> USE DEF RegistryInv
<1>1. ASSUME script' = script, credited' = credited, tokens' = tokens, called' = called,
             tickets \subseteq tickets'
      PROVE  Registered' /\ OneToken' /\ CreditsExplained'
  BY <1>1, RegisteredKept, OneTokenKept, ExplainedKept
<1>2. script.withdrawals \in Seq([ticket : Tickets, sender : Addresses])
  BY ScriptFacts DEF TypeOK
<1>3. tickets \subseteq Drain /\ Drain \subseteq Tickets
  BY DEF Drain, Shown, TypeOK
<1>4. CASE Originate
  BY <1>1, <1>4, AccountsKept DEF Originate, TypeOK, indexes, process
<1>5. CASE Publish
  BY <1>1, <1>2, <1>5, AccountsKept DEF Publish, TypeOK, indexes, process
<1>6. CASE Elapse
  BY <1>1, <1>6, AccountsKept DEF Elapse, TypeOK, chains, indexes, process
<1>7. CASE OnHead
  BY <1>1, <1>3, <1>7, AccountsKept DEF OnHead, TypeOK, chains, indexes, process
<1>8. CASE OnRollupCall
  BY <1>8, RollupCallKeeps
<1>9. CASE OnDeposit
  BY <1>9, DepositKeeps
<1>10. CASE OnWithdraw
  <2>1. /\ script' = script /\ credited' = credited /\ tokens' = tokens /\ called' = called
        /\ tickets' = tickets
    BY <1>10 DEF OnWithdraw, chains
  <2>2. withdrawn + 1 \in 1 .. Len(script.withdrawals)
    BY <1>2, <1>10 DEF OnWithdraw, TypeOK
  <2>3. NextWithdrawal.sender \in Addresses
    BY <2>2, ScriptFacts DEF NextWithdrawal, TypeOK
  <2>4. /\ accounts' \in [Addresses -> Kinds \cup {"absent", "unknown"}]
        /\ due' \subseteq {b \in Addresses : accounts'[b] = "unknown"}
        /\ NeverMisclassified'
    BY <1>10, <2>1, <2>3, SightKeeps DEF OnWithdraw
  <2>5. TypeOK'
    BY <1>10, <2>1, <2>2, <2>4 DEF OnWithdraw, TypeOK, chains, process
  <2> QED
    BY <1>1, <2>1, <2>4, <2>5
<1>11. CASE Die /\ (faults' = faults \/ (faults < MaxFaults /\ faults' = faults + 1))
  BY <1>1, <1>11, AccountsKept, FaultsAssumption DEF Die, TypeOK, chains, indexes
<1>12. CASE DieOnHead \/ DieOnCall \/ DieOnDeposit \/ DieOnWithdraw \/ DieOnAnswer
  BY <1>11, <1>12 DEF DieOnHead, DieOnCall, DieOnDeposit, DieOnWithdraw, DieOnAnswer
<1>13. CASE Restart
  BY <1>1, <1>3, <1>13, AccountsKept DEF Restart, TypeOK, chains, indexes
<1>14. CASE UNCHANGED vars
  BY <1>1, <1>14, AccountsKept DEF vars, TypeOK, chains, indexes, process
<1> QED
  BY <1>4, <1>5, <1>6, <1>7, <1>8, <1>9, <1>10, <1>12, <1>13, <1>14
     DEF Next, RollupCall, Deposit, Withdrawal

\* The tables of tickets, tokens and accounts satisfy their invariant after every step of
\* every index, for any chains.
THEOREM RegistryInvariant == Spec => []RegistryInv
BY InitRegistryInv, NextRegistryInv, PTL DEF Spec

\* Every variable keeps its type, and only unknown accounts wait for a recheck.
THEOREM TypeCorrect == Spec => []TypeOK
<1>1. RegistryInv => TypeOK
  BY DEF RegistryInv
<1> QED
  BY <1>1, RegistryInvariant, PTL

\* resolve_l2_account records no address as what it is not, whatever handler asks and
\* whenever the node gets its records.
THEOREM AccountsTrue == Spec => []NeverMisclassified
<1>1. RegistryInv => NeverMisclassified
  BY DEF RegistryInv
<1> QED
  BY <1>1, RegistryInvariant, PTL

\* on_deposit gives a credit no status without its cause, in any order of the indexes.
THEOREM CausesKnown == Spec => []CreditsExplained
<1>1. RegistryInv => CreditsExplained
  BY DEF RegistryInv
<1> QED
  BY <1>1, RegistryInvariant, PTL

=============================================================================
