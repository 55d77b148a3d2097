-------------------------- MODULE AccountLinksProofs --------------------------
(* Proofs about AccountLinks, for any accounts, links and confirmations.       *)
EXTENDS AccountLinks, FiniteSetTheorems, WellFoundedInduction, TLAPS

--------------------------------------------------------------------------------
(* Least and greatest IDs, and the rank of an account.                         *)

LEMMA LeastOf ==
    ASSUME NEW S, S \subseteq Nat, S # {}
    PROVE  \E j \in S : \A i \in S : j <= i
  <1> DEFINE Below(j) == 1..j
             T == {Below(j) : j \in S}
  <1>1. T \subseteq FiniteSubsetsOf(Nat)
    <2>1. \A j \in S : IsFiniteSet(Below(j)) /\ Below(j) \in SUBSET Nat
      BY FS_Interval
    <2> QED
      BY <2>1 DEF FiniteSubsetsOf
  <1>2. T # {}
    OBVIOUS
  <1>3. PICK least \in T : \A p \in T : <<p, least>> \notin StrictSubsetOrdering(Nat)
    <2> HIDE DEF T
    <2>1. IsWellFoundedOn(StrictSubsetOrdering(Nat), FiniteSubsetsOf(Nat))
      BY FS_StrictSubsetOrderingWellFounded
    <2> QED
      BY <1>1, <1>2, <2>1, WFMin
  <1>4. PICK j \in S : least = Below(j)
    OBVIOUS
  <1>5. ASSUME NEW i \in S, i < j PROVE FALSE
    <2>1. Below(i) \subseteq Below(j) /\ j \in Below(j) /\ j \notin Below(i)
      BY <1>5
    <2>2. Below(i) \in SUBSET Nat /\ Below(j) \in SUBSET Nat /\ Below(i) \in T
      OBVIOUS
    <2> HIDE DEF Below, T
    <2>3. <<Below(i), Below(j)>> \in StrictSubsetOrdering(Nat)
      BY <2>1, <2>2 DEF StrictSubsetOrdering
    <2> QED
      BY <1>3, <1>4, <2>2, <2>3
  <1> QED
    BY <1>5

LEMMA GreatestOf ==
    ASSUME NEW N \in Nat, NEW S, S \subseteq 0..N, S # {}
    PROVE  Max(S) \in S /\ \A y \in S : y <= Max(S)
  <1> DEFINE T == {N - s : s \in S}
  <1>1. T \subseteq Nat /\ T # {}
    <2>1. \A s \in S : s \in 0..N /\ N - s \in Nat
      OBVIOUS
    <2> QED
      BY <2>1
  <1>2. PICK j \in T : \A i \in T : j <= i
    <2> HIDE DEF T
    <2> QED
      BY <1>1, LeastOf
  <1>3. PICK s \in S : j = N - s
    OBVIOUS
  <1>4. \A y \in S : s >= y
    <2> TAKE y \in S
    <2>1. N - y \in T
      OBVIOUS
    <2> QED
      BY <1>2, <1>3, <2>1
  <1>5. \E x \in S : \A y \in S : x >= y
    BY <1>4
  <1>6. Max(S) \in S /\ \A y \in S : Max(S) >= y
    BY <1>5 DEF Max
  <1> QED
    BY <1>6

LEMMA LowestIsFree ==
    ASSUME Taken # IDs
    PROVE  Lowest \in IDs \ Taken
  <1>1. IDs \ Taken \subseteq Nat /\ IDs \ Taken # {}
    BY DEF IDs, Taken
  <1>2. \E i \in IDs \ Taken : \A j \in IDs \ Taken : i <= j
    BY <1>1, LeastOf
  <1> QED
    BY <1>2 DEF Lowest

LEMMA TakenFinite == IsFiniteSet(Taken) /\ Taken \subseteq IDs /\ IDs \subseteq Nat /\ IDs = 1..MaxID
  <1>1. IsFiniteSet(IDs) /\ IDs \subseteq Nat /\ Taken \in SUBSET IDs
    BY LinksAssumption, FS_Interval DEF IDs, Taken
  <1> QED
    BY <1>1, FS_Subset DEF IDs

\* Renumbering keeps the order of the accounts and moves none of them up.
LEMMA RankFacts ==
    /\ \A i \in Taken : Rank(i) \in IDs /\ Rank(i) <= i
    /\ \A i, j \in Taken : i < j => Rank(i) < Rank(j)
  <1> DEFINE Upto(i) == {j \in Taken : j <= i}
  <1>1. ASSUME NEW i \in Taken
        PROVE  IsFiniteSet(Upto(i)) /\ Rank(i) = Cardinality(Upto(i)) /\ Rank(i) \in 1..i
    <2>1. Upto(i) \subseteq Taken /\ Upto(i) \subseteq 1..i /\ i \in Upto(i) /\ i \in Nat
      <3>1. \A j \in Taken : j \in Nat /\ j >= 1
        BY TakenFinite, LinksAssumption
      <3> QED
        BY <3>1
    <2>2. Rank(i) = Cardinality(Upto(i))
      BY DEF Rank
    <2> HIDE DEF Upto
    <2>3. IsFiniteSet(1..i) /\ Cardinality(1..i) = i
      <3>1. i >= 1
        BY TakenFinite
      <3> QED
        BY <2>1, <3>1, FS_Interval
    <2>4. IsFiniteSet(Upto(i)) /\ Cardinality(Upto(i)) <= i
      BY <2>1, <2>3, FS_Subset
    <2>5. Cardinality(Upto(i)) \in Nat /\ Cardinality(Upto(i)) # 0
      BY <2>1, <2>4, FS_CardinalityType, FS_EmptySet
    <2> QED
      BY <2>1, <2>2, <2>4, <2>5
  <1>2. ASSUME NEW i \in Taken, NEW j \in Taken, i < j
        PROVE  Rank(i) < Rank(j)
    <2>1. Upto(i) \subseteq Upto(j) /\ j \in Upto(j) /\ j \notin Upto(i) /\ i \in Nat /\ j \in Nat
      <3>1. \A k \in Taken : k \in Nat
        BY TakenFinite
      <3> QED
        BY <1>2, <3>1
    <2>2. IsFiniteSet(Upto(j)) /\ Rank(i) = Cardinality(Upto(i)) /\ Rank(j) = Cardinality(Upto(j))
          /\ Rank(i) \in Nat /\ Rank(j) \in Nat
      BY <1>1, <2>1
    <2> HIDE DEF Upto
    <2>3. Cardinality(Upto(i)) <= Cardinality(Upto(j)) /\ Cardinality(Upto(i)) # Cardinality(Upto(j))
      BY <2>1, <2>2, FS_Subset
    <2> QED
      BY <2>2, <2>3
  <1>3. ASSUME NEW i \in Taken PROVE Rank(i) \in IDs /\ Rank(i) <= i
    <2>1. i \in 1..MaxID /\ Rank(i) \in 1..i
      BY <1>1, TakenFinite
    <2> QED
      BY <2>1, LinksAssumption DEF IDs
  <1> QED
    BY <1>2, <1>3

LEMMA RankInjective ==
    ASSUME NEW i \in Taken, NEW j \in Taken, Rank(i) = Rank(j)
    PROVE  i = j
  <1>1. i \in Nat /\ j \in Nat /\ Rank(i) \in Nat
    BY TakenFinite, RankFacts
  <1> QED
    BY <1>1, RankFacts

LEMMA HighestFacts ==
    ASSUME NEW rows, NEW top \in Nat, \A l \in LinkIDs : rows[l] # NoLink => l <= top
    PROVE  /\ Highest(rows) \in 0..top
           /\ \A l \in LinkIDs : rows[l] # NoLink => l <= Highest(rows)
  <1> DEFINE left == {l \in LinkIDs : rows[l] # NoLink} \cup {0}
  <1>1. Highest(rows) = Max(left)
    BY DEF Highest
  <1>2. left \subseteq 0..top /\ left # {}
    <2>1. \A l \in left : l \in Nat /\ l <= top
      BY DEF LinkIDs
    <2> QED
      BY <2>1
  <1>3. \A l \in LinkIDs : rows[l] # NoLink => l \in left
    OBVIOUS
  <1> HIDE DEF left
  <1>4. Max(left) \in left /\ \A y \in left : y <= Max(left)
    BY <1>2, GreatestOf
  <1> QED
    BY <1>1, <1>2, <1>3, <1>4

--------------------------------------------------------------------------------
(* Types                                                                       *)

Accounts == {NoAccount} \cup [openid : OpenIDs, born : 1..births]
Requests == [id : LinkIDs, row : Link, scan : OpenIDs \cup {None}, existed : BOOLEAN, saved : 0..MaxID]

\* What a request knows at each step: the link from the start, the identity once
\* WeChat has answered, the account once it is stored.
Knows(step, r) == /\ step = "idle" => r = NoRequest
                  /\ step # "idle" => r \in Requests
                  /\ step \notin {"idle", "check"} => r.scan \in OpenIDs
                  /\ step \in {"owner", "claim", "rollback", "drop"} => r.saved \in IDs

Distinct == \A i, j \in Taken : i # j => account[i].openid # account[j].openid
AccountType == account \in [IDs -> Accounts] /\ Distinct /\ births \in Nat
LinkType == /\ link \in [LinkIDs -> Link \cup {NoLink}] /\ linkSeq \in 0..tokens
            /\ tokens \in 0..MaxLinks /\ \A l \in Rows : l <= tokens
OwnerType == owner \in [IDs -> Users \cup {None}]
RequestType == /\ pc \in [Confirms -> Pcs]
               /\ req = [c \in Confirms |-> req[c]] /\ \A c \in Confirms : Knows(pc[c], req[c])

MakingType == /\ make \in [Makers -> Making \cup {NoMaking}]
              /\ reclaim \in [Hands -> [step : {"none", "select", "write"}, top : 0..tokens]]

\* The mapping a compaction works from is one of IDs to IDs.
PlanType == /\ cpc \in {"idle", "owners", "rows", "undo"} /\ quiet \in BOOLEAN
            /\ cpc # "idle" => DOMAIN plan \subseteq IDs /\ \A i \in DOMAIN plan : plan[i] \in IDs

TInv == AccountType /\ LinkType /\ OwnerType /\ RequestType /\ MakingType /\ PlanType

LEMMA NothingIsTyped == NoLink \notin Link /\ NoAccount \notin [openid : OpenIDs, born : 1..births]
  BY DEF NoLink, Link, NoAccount

LEMMA TypesOK == TInv => TypeOK
  <1> SUFFICES ASSUME TInv PROVE TypeOK
    OBVIOUS
  <1>1. ASSUME NEW c \in Confirms
        PROVE  /\ req[c] \in [id : 0..MaxLinks, row : Link \cup {NoLink}, scan : OpenIDs \cup {None},
                              existed : BOOLEAN, saved : 0..MaxID]
               /\ (pc[c] = "idle") = (req[c] = NoRequest)
    <2>1. NoRequest \in [id : 0..MaxLinks, row : Link \cup {NoLink}, scan : OpenIDs \cup {None},
                         existed : BOOLEAN, saved : 0..MaxID]
      BY LinksAssumption DEF NoRequest
    <2>2. NoRequest \notin Requests
      BY DEF NoRequest, Requests, LinkIDs
    <2>3. LinkIDs \subseteq 0..MaxLinks
      BY LinksAssumption DEF LinkIDs
    <2>4. CASE pc[c] = "idle"
      BY <2>1, <2>4 DEF TInv, RequestType, Knows
    <2>5. CASE pc[c] # "idle"
      <3>1. req[c] \in Requests
        BY <2>5 DEF TInv, RequestType, Knows
      <3> QED
        BY <2>2, <2>3, <2>5, <3>1 DEF Requests
    <2> QED
      BY <2>4, <2>5
  <1> QED
    BY <1>1 DEF TInv, TypeOK, AccountType, Accounts, Distinct, LinkType, OwnerType, RequestType, MakingType, PlanType

LEMMA TypesInit == Init => TInv
  <1> SUFFICES ASSUME Init PROVE TInv
    OBVIOUS
  <1>1. AccountType
    <2>1. PICK taken \in SUBSET IDs : \E who \in [taken -> OpenIDs] :
             /\ \A i, j \in taken : i # j => who[i] # who[j]
             /\ account = [i \in IDs |-> IF i \in taken THEN [openid |-> who[i], born |-> i] ELSE NoAccount]
      BY DEF Init
    <2>2. births \in Nat /\ IDs = 1..births
      BY LinksAssumption DEF Init, IDs
    <2>3. account \in [IDs -> Accounts]
      BY <2>1, <2>2 DEF Accounts
    <2>4. Distinct
      BY <2>1 DEF Distinct, Taken, NoAccount
    <2> QED
      BY <2>2, <2>3, <2>4 DEF AccountType
  <1>2. LinkType
    BY LinksAssumption DEF Init, LinkType, Rows
  <1>3. OwnerType
    BY DEF Init, OwnerType
  <1>4. RequestType
    BY DEF Init, RequestType, Knows, Pcs
  <1>5. PlanType
    BY DEF Init, PlanType
  <1>6. MakingType
    BY DEF Init, MakingType, NoReclaim
  <1> QED
    BY <1>1, <1>2, <1>3, <1>4, <1>5, <1>6 DEF TInv

LEMMA Growing ==
    ASSUME TInv, births' \in Nat, births <= births'
    PROVE  Accounts \subseteq Accounts' /\ Link \subseteq Link' /\ Requests \subseteq Requests'
  <1>1. 1..births \subseteq 1..births'
    BY DEF TInv, AccountType
  <1>2. Accounts \subseteq Accounts'
    BY <1>1 DEF Accounts
  <1>3. Link \subseteq Link'
    BY <1>1 DEF Link
  <1> QED
    BY <1>2, <1>3 DEF Requests

\* Steps that leave the accounts, or the requests, alone.
LEMMA AccountsStay ==
    ASSUME TInv, account' = account, births' = births
    PROVE  AccountType'
  BY DEF TInv, AccountType, Accounts, Distinct, Taken
LEMMA RequestsStay ==
    ASSUME TInv, UNCHANGED confirm, births' \in Nat, births <= births'
    PROVE  RequestType'
  BY Growing DEF TInv, RequestType, Knows, confirm
LEMMA PlanStays ==
    ASSUME TInv, UNCHANGED <<cpc, plan, quiet>> \/ Disturb \/ Ended
    PROVE  PlanType'
  BY DEF TInv, PlanType, Disturb, Ended

LEMMA MakingStays ==
    ASSUME TInv, UNCHANGED making, tokens' \in Nat, tokens <= tokens'
    PROVE  MakingType'
  <1>1. 0..tokens \subseteq 0..tokens'
    BY LinksAssumption DEF TInv, LinkType
  <1>2. make' = make /\ reclaim' = reclaim
    BY DEF making
  <1>3. Making' = Making
    BY DEF Making
  <1> QED
    BY <1>1, <1>2, <1>3 DEF TInv, MakingType

\* A process begins, goes on with or ends its rewinding of the sequence.
LEMMA ReclaimStep ==
    ASSUME TInv, NEW h \in Hands, tokens' = tokens,
           \/ reclaim' = reclaim
           \/ Due(h)
           \/ reclaim' = [reclaim EXCEPT ![h] = NoReclaim]
           \/ reclaim' = [reclaim EXCEPT ![h] = [step |-> "write", top |-> Highest(link)]]
    PROVE  reclaim' \in [Hands -> [step : {"none", "select", "write"}, top : 0..tokens']]
  <1> DEFINE R == [step : {"none", "select", "write"}, top : 0..tokens]
  <1>1. reclaim \in [Hands -> R] /\ tokens \in Nat
    BY LinksAssumption DEF TInv, MakingType, LinkType
  <1>2. NoReclaim \in R
    BY <1>1 DEF NoReclaim
  <1>3. [step |-> "write", top |-> Highest(link)] \in R
    <2>1. Highest(link) \in 0..tokens
      BY <1>1, HighestFacts DEF TInv, LinkType, Rows
    <2> QED
      BY <2>1
  <1>4. [reclaim[h] EXCEPT !.step = "select"] \in R
    BY <1>1
  <1>5. Due(h) => reclaim' = [reclaim EXCEPT ![h] = [reclaim[h] EXCEPT !.step = "select"]]
    BY DEF Due
  <1> HIDE DEF R
  <1>6. reclaim' \in [Hands -> R]
    BY <1>1, <1>2, <1>3, <1>4, <1>5
  <1> QED
    BY <1>6 DEF R

\* A request takes a step, whatever it knows then.
LEMMA RequestStep ==
    ASSUME TInv, NEW c \in Confirms, NEW label \in Pcs, NEW r, Knows(label, r),
           births' \in Nat, births <= births',
           pc' = [pc EXCEPT ![c] = label], req' = [req EXCEPT ![c] = r]
    PROVE  RequestType'
  <1>1. Requests \subseteq Requests'
    BY Growing
  <1>2. req' = [d \in Confirms |-> req'[d]] /\ pc' \in [Confirms -> Pcs]
    BY DEF TInv, RequestType
  <1>3. ASSUME NEW d \in Confirms PROVE Knows(pc'[d], req'[d])
    BY DEF TInv, RequestType
  <1> QED
    BY <1>1, <1>2, <1>3 DEF RequestType, Knows
LEMMA GoesOn ==
    ASSUME TInv, NEW c \in Confirms, births' \in Nat, births <= births',
           NEW label \in Pcs, Knows(label, req[c]), Goto(c, label)
    PROVE  RequestType'
  <1>1. req' = [req EXCEPT ![c] = req[c]]
    BY DEF Goto, TInv, RequestType
  <1> QED
    BY <1>1, RequestStep DEF Goto
LEMMA Ends ==
    ASSUME TInv, NEW c \in Confirms, births' \in Nat, births <= births', Finish(c)
    PROVE  RequestType'
  BY RequestStep DEF Finish, Knows, Pcs

\* Links that only vanish or are used up.
Wane == \A l \in LinkIDs : link'[l] \in {link[l], NoLink, [link[l] EXCEPT !.spent = TRUE]}
                          /\ (link[l] = NoLink => link'[l] = NoLink)
LEMMA LinksWane ==
    ASSUME TInv, Wane, link' = [l \in LinkIDs |-> link'[l]],
           linkSeq' \in {linkSeq, Highest(link')}, tokens' = tokens, births' \in Nat, births <= births'
    PROVE  LinkType'
  <1>1. link' \in [LinkIDs -> Link' \cup {NoLink}]
    <2>1. ASSUME NEW l \in LinkIDs PROVE link'[l] \in Link' \cup {NoLink}
      <3>1. link[l] \in Link \cup {NoLink}
        BY DEF TInv, LinkType
      <3>2. link[l] \in Link => [link[l] EXCEPT !.spent = TRUE] \in Link
        BY DEF Link
      <3> QED
        BY <3>1, <3>2, Growing DEF Wane
    <2> QED
      BY <2>1
  <1>2. tokens \in Nat /\ \A l \in LinkIDs : link'[l] # NoLink => l <= tokens
    BY LinksAssumption DEF TInv, LinkType, Wane, Rows
  <1>3. Highest(link') \in 0..tokens
    BY <1>2, HighestFacts
  <1> QED
    BY <1>1, <1>2, <1>3 DEF LinkType, Rows, TInv

\* An account goes, with the links that point to it.
LEMMA RemoveTypes ==
    ASSUME TInv, NEW i \in IDs, RemoveAccount(i), UNCHANGED ghosts
    PROVE  AccountType' /\ LinkType' /\ Wane
  <1>1. AccountType'
    BY DEF TInv, AccountType, Accounts, Distinct, Taken, RemoveAccount, ghosts
  <1>2. Wane /\ link' = [l \in LinkIDs |-> link'[l]]
    BY DEF RemoveAccount, Wane
  <1>3. births' \in Nat /\ births <= births' /\ tokens' = tokens /\ linkSeq' = linkSeq
    BY DEF TInv, AccountType, ghosts, RemoveAccount
  <1> QED
    BY <1>1, <1>2, <1>3, LinksWane

\* Renumbering gives every account, unchanged, to its rank, and no other ID one.
LEMMA Renumbered ==
    ASSUME TInv, CompactRows
    PROVE  /\ \A i \in Taken : account'[Rank(i)] = account[i]
           /\ \A k \in IDs : account'[k] # NoAccount => \E i \in Taken : Rank(i) = k /\ account'[k] = account[i]
           /\ account' \in [IDs -> Accounts]
           /\ Taken' = {Rank(i) : i \in Taken}
  <1>1. ASSUME NEW i \in Taken PROVE account'[Rank(i)] = account[i]
    <2>1. Rank(i) \in IDs /\ \E j \in Taken : Rank(j) = Rank(i)
      BY RankFacts
    <2>2. account'[Rank(i)] = account[CHOOSE j \in Taken : Rank(j) = Rank(i)]
      BY <2>1 DEF CompactRows
    <2>3. (CHOOSE j \in Taken : Rank(j) = Rank(i)) = i
      BY RankInjective
    <2> QED
      BY <2>2, <2>3
  <1>2. ASSUME NEW k \in IDs, account'[k] # NoAccount
        PROVE  \E i \in Taken : Rank(i) = k /\ account'[k] = account[i]
    BY <1>1, <1>2 DEF CompactRows
  <1>3. account' \in [IDs -> Accounts]
    <2>1. account' = [k \in IDs |-> account'[k]]
      BY DEF CompactRows
    <2>2. \A k \in IDs : account'[k] \in Accounts
      BY <1>2 DEF TInv, AccountType, Accounts, Taken
    <2> QED
      BY <2>1, <2>2
  <1>4. Taken' = {k \in IDs : account'[k] # NoAccount}
    BY DEF Taken
  <1>5. \A i \in Taken : Rank(i) \in IDs /\ account[i] # NoAccount
    BY RankFacts DEF Taken
  <1> QED
    BY <1>1, <1>2, <1>3, <1>4, <1>5

LEMMA CompactTypes ==
    ASSUME TInv, CompactRows
    PROVE  AccountType' /\ LinkType'
  <1>0. births' = births /\ tokens' = tokens /\ linkSeq' = linkSeq /\ births \in Nat
    BY DEF TInv, AccountType, CompactRows, ghosts
  <1>1. Distinct'
    <2> SUFFICES ASSUME NEW i \in Taken', NEW j \in Taken', i # j
                 PROVE  account'[i].openid # account'[j].openid
      BY DEF Distinct
    <2>1. PICK a \in Taken : i = Rank(a)
      BY Renumbered
    <2>2. PICK b \in Taken : j = Rank(b)
      BY Renumbered
    <2>3. account'[i] = account[a] /\ account'[j] = account[b] /\ a # b
      BY <2>1, <2>2, Renumbered
    <2> QED
      BY <2>3 DEF TInv, AccountType, Distinct
  <1>2. AccountType'
    <2>1. Accounts' = Accounts
      BY <1>0 DEF Accounts
    <2> QED
      BY <1>0, <1>1, <2>1, Renumbered DEF AccountType
  <1>3. ASSUME NEW l \in LinkIDs
        PROVE  link'[l] \in Link \cup {NoLink} /\ (link[l] = NoLink => link'[l] = NoLink)
    <2>1. link'[l] = MovedLink(link[l]) /\ link[l] \in Link \cup {NoLink}
      BY DEF CompactRows, TInv, LinkType
    <2>2. CASE link[l].account \in Moved
      <3>1. Rank(link[l].account) \in IDs /\ link[l].account \in IDs
        BY <2>2, RankFacts DEF Moved, Taken
      <3>2. link[l] \in Link
        <4>1. 0 \notin IDs
          BY DEF IDs
        <4> QED
          BY <2>1, <3>1, <4>1 DEF NoLink
      <3>3. link'[l] \in Link
        BY <2>1, <2>2, <3>1, <3>2 DEF MovedLink, Link
      <3> QED
        BY <3>2, <3>3, NothingIsTyped
    <2>3. CASE link[l].account \notin Moved
      BY <2>1, <2>3 DEF MovedLink
    <2> QED
      BY <2>2, <2>3
  <1>4. LinkType'
    <2>1. link' = [l \in LinkIDs |-> link'[l]]
      BY DEF CompactRows
    <2>2. Link' = Link
      BY <1>0 DEF Link
    <2> QED
      BY <1>0, <1>3, <2>1, <2>2 DEF TInv, LinkType, Rows
  <1> QED
    BY <1>2, <1>4

\* Whatever the mapping, ownership records keep their type.
LEMMA RemapType ==
    ASSUME TInv, NEW m, DOMAIN m \subseteq IDs, owner' = Remapped(m)
    PROVE  OwnerType'
  <1>1. \A i \in IDs : Remapped(m)[i] \in Users \cup {None}
    <2> SUFFICES ASSUME NEW i \in IDs PROVE Remapped(m)[i] \in Users \cup {None}
      OBVIOUS
    <2>1. CASE \E j \in DOMAIN m : m[j] = i /\ owner[j] # None
      <3>1. (CHOOSE j \in DOMAIN m : m[j] = i) \in DOMAIN m
        BY <2>1
      <3> QED
        BY <2>1, <3>1 DEF Remapped, TInv, OwnerType
    <2>2. CASE ~ \E j \in DOMAIN m : m[j] = i /\ owner[j] # None
      BY <2>2 DEF Remapped, TInv, OwnerType
    <2> QED
      BY <2>1, <2>2
  <1>2. Remapped(m) = [i \in IDs |-> Remapped(m)[i]]
    BY DEF Remapped
  <1> QED
    BY <1>1, <1>2 DEF OwnerType

LEMMA InsertFacts ==
    ASSUME TInv, NEW m \in Makers, Insert(m)
    PROVE  /\ make[m] \in Making
           /\ NextLink \in LinkIDs /\ link[NextLink] = NoLink /\ linkSeq' = NextLink
           /\ tokens' = tokens + 1 /\ tokens' \in 1..MaxLinks /\ NextLink <= tokens'
           /\ link' = [link EXCEPT ![NextLink] =
                         [token |-> tokens + 1, kind |-> make[m].kind, account |-> make[m].account,
                          owner |-> make[m].owner, expected |-> make[m].expected,
                          spent |-> FALSE, home |-> account[make[m].account].born]]
  <1>1. tokens \in Nat /\ linkSeq \in 0..tokens /\ tokens < MaxLinks /\ MaxLinks \in Nat
    BY LinksAssumption DEF TInv, LinkType, Insert
  <1>2. Highest(link) \in 0..tokens /\ \A l \in LinkIDs : link[l] # NoLink => l <= Highest(link)
    BY <1>1, HighestFacts DEF TInv, LinkType, Rows
  <1> DEFINE tops == {Highest(link), linkSeq}
  <1>3. tops \subseteq 0..tokens /\ tops # {} /\ Highest(link) \in tops
    BY <1>1, <1>2
  <1>4. NextLink = Max(tops) + 1
    BY DEF NextLink
  <1> HIDE DEF tops
  <1>5. Max(tops) \in tops /\ \A y \in tops : y <= Max(tops)
    BY <1>1, <1>3, GreatestOf
  <1>6. NextLink \in 1..(tokens + 1) /\ Highest(link) < NextLink
    <2> DEFINE top == Max(tops)
    <2>1. top \in 0..tokens /\ Highest(link) <= top
      BY <1>3, <1>5
    <2>2. NextLink = top + 1
      BY <1>4
    <2> HIDE DEF top
    <2> QED
      BY <1>1, <1>2, <2>1, <2>2
  <1>7. NextLink \in LinkIDs /\ NextLink <= tokens + 1
    BY <1>1, <1>6 DEF LinkIDs
  <1>8. link[NextLink] = NoLink
    <2>1. ~(NextLink <= Highest(link))
      BY <1>2, <1>6
    <2> QED
      BY <1>2, <1>7, <2>1
  <1>9. make[m] \in Making
    BY DEF Insert, TInv, MakingType, NoMaking
  <1>10. tokens' = tokens + 1 /\ tokens' \in 1..MaxLinks
    BY <1>1 DEF Insert
  <1> QED
    BY <1>7, <1>8, <1>9, <1>10 DEF Insert

LEMMA InsertTypes ==
    ASSUME TInv, NEW m \in Makers, Insert(m)
    PROVE  LinkType' /\ MakingType'
  <1> DEFINE r == make[m]
             row == [token |-> tokens + 1, kind |-> r.kind, account |-> r.account, owner |-> r.owner,
                     expected |-> r.expected, spent |-> FALSE, home |-> account[r.account].born]
             new == NextLink
  <1>1. births' = births /\ Link' = Link /\ tokens \in Nat
    BY LinksAssumption DEF Insert, Link, TInv, LinkType
  <1>2. account[r.account] \in [openid : OpenIDs, born : 1..births]
    BY DEF Insert, TInv, AccountType, Accounts, Taken
  <1>3. tokens + 1 \in 1..MaxLinks /\ r \in Making /\ tokens' = tokens + 1
    BY InsertFacts
  <1>4. row \in Link
    <2> HIDE DEF r
    <2> QED
      BY <1>2, <1>3 DEF Link, Making
  <1>5. link' = [link EXCEPT ![new] = row] /\ new \in LinkIDs /\ new <= tokens' /\ linkSeq' = new
    BY InsertFacts
  <1> HIDE DEF row, new
  <1>6. link' \in [LinkIDs -> Link \cup {NoLink}]
    BY <1>4, <1>5 DEF TInv, LinkType
  <1>7. \A l \in LinkIDs : link'[l] # NoLink => l <= tokens'
    <2>1. \A l \in LinkIDs : l \in Nat /\ (link[l] # NoLink => l <= tokens)
      BY DEF TInv, LinkType, Rows, LinkIDs
    <2>2. \A l \in LinkIDs \ {new} : link'[l] = link[l]
      BY <1>5 DEF TInv, LinkType
    <2> QED
      BY <1>1, <1>3, <1>5, <2>1, <2>2
  <1>8. linkSeq' \in 0..tokens' /\ tokens' \in 0..MaxLinks
    <2>1. new \in Nat
      BY <1>5 DEF LinkIDs
    <2>2. linkSeq' \in Nat /\ linkSeq' <= tokens'
      BY <1>5, <2>1
    <2> QED
      BY <1>3, <2>2
  <1>9. LinkType'
    BY <1>1, <1>6, <1>7, <1>8 DEF LinkType, Rows
  <1>10. MakingType'
    <2>1. make' \in [Makers -> Making \cup {NoMaking}] /\ Making' = Making
      BY DEF Insert, TInv, MakingType, Making
    <2>2. reclaim' = reclaim
      BY DEF Insert
    <2>3. 0..tokens \subseteq 0..tokens'
      BY <1>1, <1>3
    <2> QED
      BY <2>1, <2>2, <2>3 DEF TInv, MakingType
  <1> QED
    BY <1>9, <1>10

LEMMA UpdateTypes ==
    ASSUME TInv, NEW c \in Confirms, Update(c)
    PROVE  AccountType' /\ LinkType'
  <1> DEFINE i == req[c].row.account
  <1>0. births' = births /\ tokens' = tokens /\ births \in Nat
    BY DEF TInv, AccountType, Update, ghosts
  <1>1. CASE UNCHANGED table
    BY <1>0, <1>1, AccountsStay DEF TInv, LinkType, Link, Rows, table
  <1>2. CASE /\ StillLinked(c) /\ Expected(c)
             /\ \A j \in Taken \ {i} : account[j].openid # req[c].scan
             /\ account' = [account EXCEPT ![i].openid = req[c].scan]
             /\ link' = [l \in LinkIDs |-> IF link[l].account = i /\ link[l].kind = "update" THEN NoLink
                                                                                         ELSE link[l]]
             /\ linkSeq' = Highest(link')
    <2>1. req[c] \in Requests /\ req[c].scan \in OpenIDs
      BY DEF Update, TInv, RequestType, Knows
    <2>2. LinkType'
      <3>1. Wane /\ link' = [l \in LinkIDs |-> link'[l]]
        BY <1>2 DEF Wane
      <3> QED
        BY <1>0, <1>2, <3>1, LinksWane
    <2>3. i \in IDs /\ account[i] # NoAccount
      BY <1>2, <2>1 DEF Expected, Requests, Link
    <2>4. account[i] \in [openid : OpenIDs, born : 1..births]
      BY <2>3 DEF TInv, AccountType, Accounts
    <2> HIDE DEF i
    <2>5. account' \in [IDs -> Accounts]
      BY <1>0, <1>2, <2>1, <2>3, <2>4 DEF TInv, AccountType, Accounts
    <2>6. Taken' = Taken
      BY <1>2, <2>3, <2>4, <2>5, LinksAssumption, <2>1, NothingIsTyped DEF Taken, TInv, AccountType, Accounts, NoAccount
    <2>7. Distinct'
      BY <1>2, <2>3, <2>6 DEF Distinct, TInv, AccountType, Taken
    <2> QED
      BY <1>0, <2>2, <2>5, <2>7 DEF AccountType, Accounts
  <1> QED
    BY <1>1, <1>2 DEF Update

LEMMA LinksStay ==
    ASSUME TInv, UNCHANGED <<link, linkSeq, tokens>>, births' \in Nat, births <= births'
    PROVE  LinkType'
  BY Growing DEF TInv, LinkType, Rows

LEMMA OwnersStay == ASSUME TInv, owner' = owner PROVE OwnerType'
  BY DEF TInv, OwnerType

\* Steps that touch only the requests.
LEMMA OnlyRequests ==
    ASSUME TInv, UNCHANGED <<table, owner, ghosts, making, compaction>>, RequestType'
    PROVE  TInv'
  <1>1. tokens' \in Nat /\ tokens <= tokens' /\ births' \in Nat /\ births <= births'
    BY LinksAssumption DEF TInv, LinkType, AccountType, ghosts
  <1>2. MakingType'
    BY <1>1, MakingStays
  <1> QED
    BY <1>1, <1>2, AccountsStay, LinksStay, OwnersStay, PlanStays
       DEF TInv, AccountType, table, ghosts, compaction

LEMMA WithdrawTypes ==
    ASSUME TInv, NEW h \in Hands, NEW l \in LinkIDs, Withdraw(h, l), UNCHANGED ghosts
    PROVE  /\ AccountType' /\ LinkType' /\ Wane
           /\ make' = make => MakingType'
  <1>1. Wane /\ link' = [k \in LinkIDs |-> link'[k]]
    BY DEF Withdraw, Wane, TInv, LinkType
  <1>2. births' = births /\ births \in Nat /\ tokens' = tokens
    BY DEF TInv, AccountType, ghosts
  <1>3. make' = make => MakingType'
    BY <1>2, ReclaimStep DEF Withdraw, TInv, MakingType, Making
  <1> QED
    BY <1>1, <1>2, <1>3, AccountsStay, LinksWane DEF Withdraw

LEMMA PurgeTypes ==
    ASSUME TInv, NEW h \in Hands, PurgeRows(h), UNCHANGED ghosts
    PROVE  /\ AccountType' /\ LinkType' /\ Wane
           /\ make' \in [Makers -> Making \cup {NoMaking}] => MakingType'
  <1>1. Wane /\ link' = [k \in LinkIDs |-> link'[k]]
    BY DEF PurgeRows, Wane, Unspent
  <1>2. births' = births /\ births \in Nat /\ tokens' = tokens
    BY DEF TInv, AccountType, ghosts
  <1>3. make' \in [Makers -> Making \cup {NoMaking}] => MakingType'
    BY <1>2, ReclaimStep DEF PurgeRows, MakingType, Making
  <1> QED
    BY <1>1, <1>2, <1>3, AccountsStay, LinksWane DEF PurgeRows

\* The account a scan is stored in.
LEMMA StoreFacts ==
    ASSUME TInv, NEW c \in Confirms, Store(c)
    PROVE  /\ births' \in Nat /\ births <= births'
           /\ req[c] \in Requests /\ req[c].scan \in OpenIDs
           /\ req'[c].saved \in IDs
           /\ req' = [req EXCEPT ![c] = [req[c] EXCEPT !.saved = req'[c].saved]]
           /\ AccountType'
  <1>1. births \in Nat /\ req[c] \in Requests /\ req[c].scan \in OpenIDs
    BY DEF Store, TInv, RequestType, Knows, AccountType
  <1>2. CASE \E i \in Taken : /\ account[i].openid = req[c].scan
                             /\ req' = [req EXCEPT ![c].saved = i]
                             /\ UNCHANGED <<account, births, compaction>>
    <2>1. PICK i \in Taken : req' = [req EXCEPT ![c].saved = i]
      BY <1>2
    <2>2. i \in IDs /\ req' = [req EXCEPT ![c] = [req[c] EXCEPT !.saved = i]]
      BY <2>1 DEF Taken
    <2>3. req'[c].saved = i
      BY <1>1, <2>2 DEF TInv, RequestType, Requests
    <2>4. births' \in Nat /\ births <= births' /\ AccountType'
      BY <1>1, <1>2, AccountsStay
    <2>5. req' = [req EXCEPT ![c] = [req[c] EXCEPT !.saved = req'[c].saved]]
      BY <2>2, <2>3
    <2> QED
      BY <1>1, <2>2, <2>3, <2>4, <2>5
  <1>3. CASE /\ ~Known(req[c].scan) /\ Taken # IDs
             /\ births' = births + 1
             /\ account' = [account EXCEPT ![Lowest] = [openid |-> req[c].scan, born |-> births']]
             /\ req' = [req EXCEPT ![c].saved = Lowest]
             /\ Disturb
    <2>1. Lowest \in IDs \ Taken
      BY <1>3, LowestIsFree
    <2>2. req' = [req EXCEPT ![c] = [req[c] EXCEPT !.saved = Lowest]]
      BY <1>3
    <2>3. req'[c].saved = Lowest
      BY <1>1, <2>2 DEF TInv, RequestType, Requests
    <2>4. births' \in Nat /\ births <= births'
      BY <1>1, <1>3
    <2>5. [openid |-> req[c].scan, born |-> births'] \in Accounts' /\ Accounts \subseteq Accounts'
      BY <1>1, <1>3, <2>4, Growing DEF Accounts
    <2>6. account' \in [IDs -> Accounts']
      BY <1>3, <2>1, <2>5 DEF TInv, AccountType
    <2>7. Taken' \subseteq Taken \cup {Lowest}
      BY <1>3, <2>1 DEF Taken, TInv, AccountType
    <2>8. \A j \in Taken : account'[j] = account[j] /\ account[j].openid # req[c].scan
      BY <1>3, <2>1 DEF Known, TInv, AccountType, Taken
    <2>9. account'[Lowest].openid = req[c].scan
      BY <1>3, <2>1 DEF TInv, AccountType
    <2>10. Distinct'
      BY <2>7, <2>8, <2>9 DEF TInv, AccountType, Distinct
    <2> QED
      BY <1>1, <2>1, <2>2, <2>3, <2>4, <2>6, <2>10 DEF AccountType
  <1> QED
    BY <1>2, <1>3 DEF Store

LEMMA ClaimedTypes ==
    ASSUME TInv, NEW c \in Confirms, births' \in Nat, births <= births', pc[c] \in {"owner", "claim"},
           Claimed(c) \/ GiveUp(c) \/ (pc[c] = "owner" /\ Goto(c, "claim"))
    PROVE  RequestType'
  <1>1. \A label \in {"claim", "rollback", "drop"} : Knows(label, req[c]) /\ label \in Pcs
    BY DEF TInv, RequestType, Knows, Pcs
  <1> QED
    BY <1>1, GoesOn, Ends DEF Claimed, GiveUp

LEMMA ConfirmTypes ==
    ASSUME TInv, NEW c \in Confirms, Confirmation(c)
    PROVE  TInv'
  <1>0. births \in Nat /\ Knows(pc[c], req[c])
    BY DEF TInv, AccountType, RequestType
  <1>m. UNCHANGED making /\ tokens' = tokens => MakingType'
    BY MakingStays, LinksAssumption DEF TInv, LinkType
  <1>1. CASE Open(c)
    <2>1. PICK l \in Rows : ~link[l].spent /\ req' = [req EXCEPT ![c].id = l, ![c].row = link[l]]
      BY <1>1 DEF Open
    <2>2. l \in LinkIDs /\ link[l] \in Link
      BY <2>1 DEF Rows, TInv, LinkType
    <2> DEFINE r == [NoRequest EXCEPT !.id = l, !.row = link[l]]
    <2>3. r \in Requests
      <3> DEFINE Blank == [id : {0}, row : {NoLink}, scan : {None}, existed : BOOLEAN, saved : 0..MaxID]
                 One == [NoRequest EXCEPT !.id = l]
      <3>1. NoRequest \in Blank
        BY LinksAssumption DEF NoRequest
      <3>2. One \in [id : LinkIDs, row : {NoLink}, scan : {None}, existed : BOOLEAN, saved : 0..MaxID]
        BY <2>2, <3>1
      <3>3. [One EXCEPT !.row = link[l]] \in Requests
        <4> HIDE DEF One
        <4> QED
          BY <2>2, <3>2 DEF Requests
      <3>4. r = [One EXCEPT !.row = link[l]]
        OBVIOUS
      <3> QED
        BY <3>3, <3>4
    <2>4. req[c] = NoRequest
      BY <1>0, <1>1 DEF Open, Knows
    <2>5. req' = [req EXCEPT ![c] = r]
      BY <2>1, <2>4
    <2>6. Knows("check", r)
      BY <2>3 DEF Knows
    <2> HIDE DEF r
    <2>7. RequestType'
      <3>1. "check" \in Pcs /\ pc' = [pc EXCEPT ![c] = "check"] /\ births' \in Nat /\ births <= births'
        BY <1>0, <1>1 DEF Open, Pcs, ghosts
      <3> QED
        BY <2>5, <2>6, <3>1, RequestStep
    <2> QED
      BY <1>1, <2>7, OnlyRequests DEF Open
  <1>2. CASE Check(c)
    <2>1. CASE Finish(c)
      BY <1>0, <1>2, <2>1, Ends, OnlyRequests DEF Check, ghosts
    <2>2. CASE ~Finish(c)
      <3>1. PICK openid \in OpenIDs : /\ req' = [req EXCEPT ![c].scan = openid]
                                     /\ \E label \in {"update", "consume"} : pc' = [pc EXCEPT ![c] = label]
        BY <1>2, <2>2 DEF Check
      <3>2. PICK label \in {"update", "consume"} : pc' = [pc EXCEPT ![c] = label]
        BY <3>1
      <3> DEFINE r == [req[c] EXCEPT !.scan = openid]
      <3>3. req[c] \in Requests
        BY <1>0, <1>2 DEF Check, Knows
      <3>4. r \in Requests /\ r.scan = openid
        BY <3>3 DEF Requests
      <3>5. req' = [req EXCEPT ![c] = r]
        BY <3>1
      <3>6. Knows(label, r) /\ label \in Pcs
        BY <3>4 DEF Knows, Pcs
      <3> HIDE DEF r
      <3>7. RequestType'
        <4>1. births' \in Nat /\ births <= births'
          BY <1>0, <1>2 DEF Check, ghosts
        <4> QED
          BY <3>2, <3>5, <3>6, <4>1, RequestStep
      <3> QED
        BY <1>2, <3>7, OnlyRequests DEF Check
    <2> QED
      BY <2>1, <2>2
  <1>3. CASE Update(c)
    <2>1. RequestType' /\ PlanType' /\ OwnerType' /\ MakingType'
      BY <1>0, <1>3, <1>m, Ends, PlanStays, OwnersStay DEF Update, ghosts, compaction
    <2> QED
      BY <1>3, <2>1, UpdateTypes DEF TInv
  <1>4. CASE Consume(c)
    <2>1. RequestType'
      <3>1. Knows("exists", req[c]) /\ "exists" \in Pcs
        BY <1>0, <1>4 DEF Consume, Knows, Pcs
      <3> QED
        BY <1>0, <1>4, <3>1, Ends, GoesOn DEF Consume, ghosts
    <2>2. LinkType'
      <3>1. CASE UNCHANGED link
        BY <1>0, <1>4, <3>1, LinksStay DEF Consume, ghosts
      <3>2. CASE req[c].id \in Rows /\ link' = [link EXCEPT ![req[c].id].spent = TRUE]
        <4>1. Wane /\ link' = [l \in LinkIDs |-> link'[l]]
          BY <3>2 DEF Wane, TInv, LinkType, Rows
        <4> QED
          BY <1>0, <1>4, <4>1, LinksWane DEF Consume, ghosts
      <3> QED
        BY <1>4, <3>1, <3>2 DEF Consume
    <2>3. AccountType' /\ OwnerType' /\ PlanType' /\ MakingType'
      BY <1>4, <1>m, AccountsStay, OwnersStay, PlanStays DEF Consume, ghosts, compaction
    <2> QED
      BY <2>1, <2>2, <2>3 DEF TInv
  <1>5. CASE Exists(c)
    <2> DEFINE r == [req[c] EXCEPT !.existed = Known(req[c].scan)]
    <2>1. req[c] \in Requests /\ req[c].scan \in OpenIDs
      BY <1>0, <1>5 DEF Exists, Knows
    <2>2. Known(req[c].scan) \in BOOLEAN
      BY DEF Known
    <2>3. r \in Requests /\ r.scan \in OpenIDs
      BY <2>1, <2>2 DEF Requests
    <2>4. req' = [req EXCEPT ![c] = r]
      BY <1>5 DEF Exists
    <2>5. Knows("store", r) /\ "store" \in Pcs
      BY <2>3 DEF Knows, Pcs
    <2> HIDE DEF r
    <2>6. RequestType'
      <3>1. pc' = [pc EXCEPT ![c] = "store"] /\ births' \in Nat /\ births <= births'
        BY <1>0, <1>5 DEF Exists, ghosts
      <3> QED
        BY <2>4, <2>5, <3>1, RequestStep
    <2> QED
      BY <1>5, <2>6, OnlyRequests DEF Exists
  <1>6. CASE Store(c)
    <2> DEFINE r == [req[c] EXCEPT !.saved = req'[c].saved]
    <2>1. r \in Requests /\ r.scan \in OpenIDs /\ r.saved \in IDs
      <3>1. req[c] \in Requests /\ req[c].scan \in OpenIDs /\ req'[c].saved \in IDs
        BY <1>6, StoreFacts
      <3>2. IDs \subseteq 0..MaxID
        BY LinksAssumption DEF IDs
      <3> QED
        BY <3>1, <3>2 DEF Requests
    <2>2. Knows("owner", r) /\ "owner" \in Pcs /\ req' = [req EXCEPT ![c] = r]
      BY <1>6, <2>1, StoreFacts DEF Knows, Pcs
    <2> HIDE DEF r
    <2>3. RequestType'
      BY <1>6, <2>2, RequestStep, StoreFacts DEF Store
    <2>4. PlanType' /\ OwnerType' /\ LinkType' /\ MakingType'
      BY <1>6, <1>m, PlanStays, OwnersStay, LinksStay, StoreFacts DEF Store, compaction
    <2> QED
      BY <1>6, <2>3, <2>4, StoreFacts DEF TInv
  <1>7. CASE ReadOwner(c)
    <2>1. Claimed(c) \/ GiveUp(c) \/ Goto(c, "claim")
      BY <1>7 DEF ReadOwner
    <2>2. RequestType'
      BY <1>0, <1>7, <2>1, ClaimedTypes DEF ReadOwner, ghosts
    <2> QED
      BY <1>7, <2>2, OnlyRequests DEF ReadOwner
  <1>8. CASE Claim(c)
    <2>1. RequestType'
      BY <1>0, <1>8, ClaimedTypes DEF Claim, ghosts
    <2>2. AccountType' /\ LinkType' /\ PlanType' /\ MakingType'
      BY <1>0, <1>8, <1>m, AccountsStay, LinksStay, PlanStays DEF Claim, ghosts, table
    <2>3. OwnerType'
      <3>1. req[c].row.owner \in Users \cup {None}
        BY <1>0, <1>8 DEF Claim, Knows, Requests, Link
      <3> QED
        BY <1>8, <3>1 DEF Claim, TInv, OwnerType
    <2> QED
      BY <2>1, <2>2, <2>3 DEF TInv
  <1>9. CASE Rollback(c)
    <2>1. RequestType' /\ PlanType' /\ OwnerType' /\ MakingType'
      BY <1>0, <1>9, <1>m, Ends, PlanStays, OwnersStay DEF Rollback, ghosts
    <2>2. AccountType' /\ LinkType'
      <3>1. CASE UNCHANGED table
        BY <1>0, <1>9, <3>1, AccountsStay, LinksStay DEF Rollback, ghosts, table
      <3>2. CASE req[c].saved \in IDs /\ RemoveAccount(req[c].saved)
        BY <1>9, <3>2, RemoveTypes DEF Rollback
      <3> QED
        BY <1>9, <3>1, <3>2 DEF Rollback, Taken
    <2> QED
      BY <2>1, <2>2 DEF TInv
  <1>10. CASE DropLink(c)
    <2>1. RequestType' /\ PlanType' /\ OwnerType'
      BY <1>0, <1>10, Ends, PlanStays, OwnersStay DEF DropLink, ghosts, compaction
    <2>2. AccountType' /\ LinkType' /\ MakingType'
      <3>1. CASE UNCHANGED <<table, reclaim>>
        BY <1>0, <1>10, <1>m, <3>1, AccountsStay, LinksStay DEF DropLink, ghosts, table, making
      <3>2. CASE req[c].id \in LinkIDs /\ Withdraw(c, req[c].id)
        <4>1. c \in Hands
          BY DEF Hands
        <4> QED
          BY <1>10, <3>2, <4>1, WithdrawTypes DEF DropLink
      <3> QED
        BY <1>10, <3>1, <3>2 DEF DropLink, Rows
    <2> QED
      BY <2>1, <2>2 DEF TInv
  <1> QED
    BY <1>1, <1>2, <1>3, <1>4, <1>5, <1>6, <1>7, <1>8, <1>9, <1>10 DEF Confirmation

\* Making, revoking, purging links and rewinding their sequence touches links only.
LEMMA LinkKeeping ==
    /\ \A m \in Makers : Creation(m) => UNCHANGED <<account, owner, births, confirm, compaction>>
    /\ \A k \in Cleaners : Cleaning(k) => UNCHANGED <<account, owner, ghosts, confirm, compaction>>
    /\ \A h \in Hands : Reclaiming(h) => UNCHANGED <<account, link, owner, ghosts, confirm, compaction>>
  <1>1. \A m \in Makers : Creation(m) => UNCHANGED <<account, owner, births, confirm, compaction>>
    BY DEF Creation, Resolve, ReadLinkOwner, PurgeFirst, PurgeRows, List, Insert, Quit, table, ghosts
  <1>2. \A k \in Cleaners : Cleaning(k) => UNCHANGED <<account, owner, ghosts, confirm, compaction>>
    BY DEF Cleaning, Purge, PurgeRows, Revoke, Withdraw
  <1>3. \A h \in Hands : Reclaiming(h) => UNCHANGED <<account, link, owner, ghosts, confirm, compaction>>
    BY DEF Reclaiming, SelectMax, WriteSeq, ReclaimFails, table
  <1> QED
    BY <1>1, <1>2, <1>3

\* A mapping and the one that takes it back keep to the IDs.
LEMMA MappingType ==
    /\ DOMAIN Mapping \subseteq IDs /\ \A i \in DOMAIN Mapping : Mapping[i] \in IDs
    /\ \A m : (DOMAIN m \subseteq IDs /\ \A i \in DOMAIN m : m[i] \in IDs)
              => DOMAIN Reversed(m) \subseteq IDs
  BY RankFacts DEF Mapping, Moved, Taken, Reversed

LEMMA CreationTypes ==
    ASSUME TInv, NEW m \in Makers, Creation(m)
    PROVE  TInv'
  <1>0. births \in Nat /\ tokens \in Nat /\ m \in Hands
    BY LinksAssumption DEF TInv, AccountType, LinkType, Hands
  <1>1. ASSUME UNCHANGED <<owner, births, confirm, compaction>> PROVE OwnerType' /\ RequestType' /\ PlanType'
    BY <1>0, <1>1, OwnersStay, RequestsStay, PlanStays DEF compaction
  <1>2. ASSUME UNCHANGED <<table, owner, ghosts, confirm, compaction>>,
               make' \in [Makers -> Making \cup {NoMaking}],
               reclaim' \in {reclaim, [reclaim EXCEPT ![m] = NoReclaim]}
        PROVE  TInv'
    <2>1. births' = births /\ tokens' = tokens
      BY <1>2 DEF ghosts
    <2>2. MakingType'
      BY <1>0, <1>2, <2>1, ReclaimStep DEF MakingType, Making
    <2>3. AccountType' /\ LinkType'
      BY <1>0, <1>2, <2>1, AccountsStay, LinksStay DEF table
    <2> QED
      BY <1>1, <1>2, <2>1, <2>2, <2>3 DEF TInv
  <1>3. ASSUME NEW kind \in {"update", "add"}, NEW i \in IDs, Resolve(m, kind, i) PROVE TInv'
    <2>0. PICK user \in {None, owner[i]} :
             make' = [make EXCEPT ![m] = [at |-> IF user = None THEN "owner" ELSE "purge", kind |-> kind,
                                          account |-> i, owner |-> user,
                                          expected |-> IF kind = "update" THEN account[i].openid ELSE None]]
      BY <1>3 DEF Resolve
    <2> DEFINE r == [at |-> IF user = None THEN "owner" ELSE "purge", kind |-> kind,
                     account |-> i, owner |-> user,
                     expected |-> IF kind = "update" THEN account[i].openid ELSE None]
    <2>1. account[i].openid \in OpenIDs
      BY <1>3 DEF Resolve, Taken, TInv, AccountType, Accounts
    <2>a. user \in Users \cup {None}
      BY <2>0 DEF TInv, OwnerType
    <2>2. r \in Making
      BY <2>1, <2>a DEF Making
    <2>3. make' = [make EXCEPT ![m] = r]
      BY <2>0
    <2> HIDE DEF r
    <2>4. make' \in [Makers -> Making \cup {NoMaking}]
      BY <2>2, <2>3 DEF TInv, MakingType
    <2> QED
      BY <1>2, <1>3, <2>4 DEF Resolve
  <1>4. ASSUME make[m] # NoMaking PROVE make[m] \in Making
    BY <1>4 DEF TInv, MakingType
  <1>5. CASE ReadLinkOwner(m)
    <2>1. make[m] \in Making
      BY <1>4, <1>5 DEF ReadLinkOwner, NoMaking
    <2>2. PICK user \in {None, owner[make[m].account]} :
             make' = [make EXCEPT ![m] = [make[m] EXCEPT !.at = "purge", !.owner = user]]
      BY <1>5 DEF ReadLinkOwner
    <2>3. user \in Users \cup {None}
      BY <2>1, <2>2 DEF TInv, OwnerType, Making
    <2>4. [make[m] EXCEPT !.at = "purge", !.owner = user] \in Making
      BY <2>1, <2>3 DEF Making
    <2>5. make' \in [Makers -> Making \cup {NoMaking}]
      BY <2>2, <2>4 DEF TInv, MakingType
    <2> QED
      BY <1>2, <1>5, <2>5 DEF ReadLinkOwner
  <1>6. ASSUME NEW label \in {"list", "insert"}, make[m] # NoMaking, make' = [make EXCEPT ![m].at = label]
        PROVE  make' \in [Makers -> Making \cup {NoMaking}]
    <2>1. [make[m] EXCEPT !.at = label] \in Making
      BY <1>4, <1>6 DEF Making
    <2> QED
      BY <1>6, <2>1 DEF TInv, MakingType
  <1>7. CASE PurgeFirst(m)
    <2>1. make' \in [Makers -> Making \cup {NoMaking}]
      BY <1>6, <1>7 DEF PurgeFirst, NoMaking
    <2>2. OwnerType' /\ RequestType' /\ PlanType'
      BY <1>1, <1>7 DEF PurgeFirst, ghosts
    <2> QED
      BY <1>0, <1>7, <2>1, <2>2, PurgeTypes DEF TInv, PurgeFirst
  <1>8. CASE List(m)
    <2>1. make' \in [Makers -> Making \cup {NoMaking}]
      BY <1>6, <1>8 DEF List, NoMaking
    <2> QED
      BY <1>2, <1>8, <2>1 DEF List
  <1>9. CASE Insert(m)
    <2>1. AccountType'
      BY <1>9, AccountsStay DEF Insert
    <2>2. OwnerType' /\ RequestType' /\ PlanType'
      BY <1>1, <1>9 DEF Insert
    <2> QED
      BY <1>9, <2>1, <2>2, InsertTypes DEF TInv
  <1>10. CASE Quit(m)
    <2>1. make' \in [Makers -> Making \cup {NoMaking}]
      BY <1>10 DEF Quit, TInv, MakingType
    <2> QED
      BY <1>2, <1>10, <2>1 DEF Quit
  <1> QED
    BY <1>3, <1>5, <1>7, <1>8, <1>9, <1>10 DEF Creation

LEMMA TypesNext ==
    ASSUME TInv, [Next]_vars
    PROVE  TInv'
  <1>0. births \in Nat /\ tokens \in Nat
    BY LinksAssumption DEF TInv, AccountType, LinkType
  <1>m. UNCHANGED making /\ tokens' = tokens => MakingType'
    BY <1>0, MakingStays
  <1>1. ASSUME NEW c \in Confirms, Confirmation(c) PROVE TInv'
    BY <1>1, ConfirmTypes
  <1>2. CASE Plan
    <2>1. AccountType' /\ LinkType' /\ OwnerType' /\ RequestType' /\ MakingType'
      BY <1>0, <1>m, <1>2, AccountsStay, LinksStay, OwnersStay, RequestsStay DEF Plan, table, ghosts
    <2>2. PlanType'
      BY <1>2, MappingType DEF Plan, PlanType
    <2> QED
      BY <2>1, <2>2 DEF TInv
  <1>3. CASE RemapOwners
    <2>1. AccountType' /\ LinkType' /\ RequestType' /\ MakingType'
      BY <1>0, <1>m, <1>3, AccountsStay, LinksStay, RequestsStay DEF RemapOwners, table, ghosts
    <2>2. OwnerType'
      BY <1>3, RemapType, OwnersStay DEF RemapOwners, TInv, PlanType
    <2>3. PlanType'
      BY <1>3 DEF RemapOwners, TInv, PlanType, Ended
    <2> QED
      BY <2>1, <2>2, <2>3 DEF TInv
  <1>4. CASE CompactRows
    <2>1. OwnerType' /\ RequestType' /\ PlanType' /\ MakingType'
      BY <1>0, <1>m, <1>4, OwnersStay, RequestsStay, PlanStays DEF CompactRows, ghosts
    <2> QED
      BY <1>4, <2>1, CompactTypes DEF TInv
  <1>5. CASE RowsFail
    <2>1. AccountType' /\ LinkType' /\ OwnerType' /\ RequestType' /\ MakingType'
      BY <1>0, <1>m, <1>5, AccountsStay, LinksStay, OwnersStay, RequestsStay DEF RowsFail, table, ghosts
    <2>2. PlanType'
      BY <1>5 DEF RowsFail, TInv, PlanType
    <2> QED
      BY <2>1, <2>2 DEF TInv
  <1>6. CASE Undo
    <2>1. AccountType' /\ LinkType' /\ RequestType' /\ PlanType' /\ MakingType'
      BY <1>0, <1>m, <1>6, AccountsStay, LinksStay, RequestsStay, PlanStays DEF Undo, table, ghosts
    <2>2. DOMAIN Reversed(plan) \subseteq IDs
      BY <1>6, MappingType DEF Undo, TInv, PlanType
    <2>3. OwnerType'
      BY <1>6, <2>2, RemapType, OwnersStay DEF Undo
    <2> QED
      BY <2>1, <2>3 DEF TInv
  <1>7. ASSUME NEW i \in IDs, Delete(i) PROVE TInv'
    <2>1. OwnerType' /\ RequestType' /\ PlanType' /\ MakingType'
      BY <1>0, <1>m, <1>7, OwnersStay, RequestsStay, PlanStays DEF Delete, ghosts
    <2> QED
      BY <1>7, <2>1, RemoveTypes DEF TInv, Delete
  <1>8. ASSUME NEW m \in Makers, Creation(m) PROVE TInv'
    BY <1>8, CreationTypes
  <1>9. ASSUME NEW k \in Cleaners, Cleaning(k) PROVE TInv'
    <2>1. OwnerType' /\ RequestType' /\ PlanType' /\ make' = make /\ UNCHANGED ghosts /\ k \in Hands
      BY <1>0, <1>9, OwnersStay, RequestsStay, PlanStays DEF Cleaning, Purge, Revoke, ghosts, compaction, Hands
    <2>2. make' \in [Makers -> Making \cup {NoMaking}]
      BY <2>1 DEF TInv, MakingType
    <2> QED
      BY <1>9, <2>1, <2>2, WithdrawTypes, PurgeTypes DEF TInv, Cleaning, Purge, Revoke
  <1>10. ASSUME NEW l \in LinkIDs, Expire(l) PROVE TInv'
    <2>1. AccountType' /\ OwnerType' /\ RequestType' /\ PlanType' /\ MakingType'
      BY <1>0, <1>m, <1>10, AccountsStay, OwnersStay, RequestsStay, PlanStays DEF Expire, ghosts, compaction
    <2>2. Wane /\ link' = [k \in LinkIDs |-> link'[k]]
      BY <1>10 DEF Expire, Wane, TInv, LinkType, Rows
    <2>3. LinkType'
      BY <1>0, <1>10, <2>2, LinksWane DEF Expire, ghosts
    <2> QED
      BY <2>1, <2>3 DEF TInv
  <1>11. ASSUME NEW h \in Hands, Reclaiming(h) PROVE TInv'
    <2>1. UNCHANGED <<account, link, owner, ghosts, confirm, make, compaction>>
      BY <1>11 DEF Reclaiming, SelectMax, WriteSeq, ReclaimFails, table
    <2>2. AccountType' /\ OwnerType' /\ RequestType' /\ PlanType'
      BY <1>0, <2>1, AccountsStay, OwnersStay, RequestsStay, PlanStays DEF ghosts, compaction
    <2>3. MakingType'
      BY <1>11, <2>1, ReclaimStep DEF Reclaiming, SelectMax, WriteSeq, ReclaimFails, TInv, MakingType, Making, ghosts
    <2>4. linkSeq' \in 0..tokens
      <3>1. linkSeq \in 0..tokens /\ reclaim[h].top \in 0..tokens
        BY DEF TInv, LinkType, MakingType
      <3>2. linkSeq' \in {linkSeq, 0, reclaim[h].top}
        BY <1>11 DEF Reclaiming, SelectMax, WriteSeq, ReclaimFails, table
      <3> QED
        BY <1>0, <3>1, <3>2
    <2>5. LinkType'
      BY <2>1, <2>4 DEF TInv, LinkType, Rows, Link, ghosts
    <2> QED
      BY <2>2, <2>3, <2>5 DEF TInv
  <1>12. CASE Crash
    <2>1. AccountType' /\ LinkType' /\ OwnerType' /\ PlanType'
      BY <1>0, <1>12, AccountsStay, LinksStay, OwnersStay, PlanStays DEF Crash, table, ghosts
    <2>2. RequestType'
      BY <1>12 DEF Crash, RequestType, Knows, Pcs
    <2>3. MakingType'
      BY <1>0, <1>12 DEF Crash, MakingType, NoReclaim, ghosts
    <2> QED
      BY <2>1, <2>2, <2>3 DEF TInv
  <1>13. CASE UNCHANGED vars
    <2>1. RequestType'
      BY <1>0, <1>13, RequestsStay DEF vars, ghosts
    <2> QED
      BY <1>13, <2>1, OnlyRequests DEF vars
  <1> QED
    BY <1>1, <1>2, <1>3, <1>4, <1>5, <1>6, <1>7, <1>8, <1>9, <1>10, <1>11, <1>12, <1>13 DEF Next, Compaction

\* Tables, links, requests and the compaction's plan always have their types, and no
\* two accounts the same identity: for any numbers of IDs, links and confirmations.
THEOREM TypeCorrect == Spec => []TypeOK
  <1>1. Spec => []TInv
    BY TypesInit, TypesNext, PTL DEF Spec
  <1> QED
    BY <1>1, TypesOK, PTL

--------------------------------------------------------------------------------
(* What a step does to the accounts and links                                  *)

SameBirths == \A i \in IDs : account'[i].born = account[i].born
Inserted(i) == /\ i \in IDs \ Taken /\ births' = births + 1
               /\ \E openid \in OpenIDs : account' = [account EXCEPT ![i] = [openid |-> openid, born |-> births']]
               /\ UNCHANGED <<link, tokens>>

\* Every step is one of these five, as far as the two tables are concerned.
Steady == SameBirths /\ Wane /\ UNCHANGED ghosts
TableStep == \/ Steady
             \/ \E i \in IDs : RemoveAccount(i) /\ UNCHANGED ghosts
             \/ \E i \in IDs : Inserted(i)
             \/ \E m \in Makers : Insert(m)
             \/ CompactRows

LEMMA TakenAreBorn ==
    ASSUME TInv
    PROVE  \A i \in IDs : (i \in Taken) <=> account[i].born # 0
  BY DEF TInv, AccountType, Accounts, NoAccount, Taken

LEMMA UnchangedSteady == ASSUME TInv, UNCHANGED <<account, link, ghosts>> PROVE Steady
  BY DEF Steady, SameBirths, Wane
LEMMA WaneSteady == ASSUME TInv, account' = account, Wane, UNCHANGED ghosts PROVE Steady
  BY DEF Steady, SameBirths

LEMMA UpdateSteady == ASSUME TInv, NEW c \in Confirms, Update(c) PROVE Steady
  <1>1. CASE UNCHANGED table
    BY <1>1, UnchangedSteady DEF Update, table
  <1>2. CASE ~UNCHANGED table
    <2>1. account' = [account EXCEPT ![req[c].row.account].openid = req[c].scan]
      BY <1>2 DEF Update
    <2>2. link' = [l \in LinkIDs |-> IF link[l].account = req[c].row.account /\ link[l].kind = "update"
                                    THEN NoLink ELSE link[l]]
      BY <1>2 DEF Update
    <2>3. ASSUME NEW i \in IDs PROVE account'[i].born = account[i].born
      <3>1. account[i] \in [openid : OpenIDs, born : 1..births] \cup {NoAccount}
        BY DEF TInv, AccountType, Accounts
      <3>2. account[i] \in [openid : OpenIDs \cup {None}, born : 0..births]
        BY <3>1 DEF NoAccount, TInv, AccountType
      <3>3. account'[i] \in {account[i], [account[i] EXCEPT !.openid = req[c].scan]}
        BY <2>1 DEF TInv, AccountType
      <3> QED
        BY <3>2, <3>3
    <2>4. Wane
      BY <2>2 DEF Wane
    <2> QED
      BY <2>3, <2>4 DEF Update, Steady, SameBirths
  <1> QED
    BY <1>1, <1>2

LEMMA TableSteps ==
    ASSUME TInv, [Next]_vars
    PROVE  TableStep
  <1>1. ASSUME NEW c \in Confirms, Confirmation(c) PROVE TableStep
    <2>1. CASE Open(c) \/ Check(c) \/ Exists(c) \/ ReadOwner(c)
      BY <2>1, UnchangedSteady DEF Open, Check, Exists, ReadOwner, table, TableStep
    <2>2. CASE Claim(c)
      BY <2>2, UnchangedSteady DEF Claim, table, TableStep
    <2>3. CASE Update(c)
      BY <2>3, UpdateSteady DEF TableStep
    <2>4. CASE Consume(c)
      <3>1. Wane
        BY <2>4 DEF Consume, Wane, TInv, LinkType, Rows
      <3> QED
        BY <2>4, <3>1, WaneSteady DEF Consume, TableStep
    <2>5. CASE Store(c)
      <3>1. CASE UNCHANGED <<account, births, compaction>>
        BY <2>5, <3>1, UnchangedSteady DEF Store, ghosts, TableStep
      <3>2. CASE /\ ~Known(req[c].scan) /\ Taken # IDs
                 /\ births' = births + 1
                 /\ account' = [account EXCEPT ![Lowest] = [openid |-> req[c].scan, born |-> births']]
        <4>1. Lowest \in IDs \ Taken /\ req[c].scan \in OpenIDs
          BY <2>5, <3>2, LowestIsFree, StoreFacts
        <4>2. Inserted(Lowest)
          BY <2>5, <3>2, <4>1 DEF Inserted, Store
        <4> QED
          BY <4>1, <4>2 DEF TableStep
      <3> QED
        BY <2>5, <3>1, <3>2 DEF Store
    <2>6. CASE Rollback(c)
      <3>1. CASE UNCHANGED table
        BY <2>6, <3>1, UnchangedSteady DEF Rollback, table, TableStep
      <3>2. CASE req[c].saved \in Taken /\ RemoveAccount(req[c].saved)
        BY <2>6, <3>2 DEF Rollback, Taken, TableStep
      <3> QED
        BY <2>6, <3>1, <3>2 DEF Rollback
    <2>7. CASE DropLink(c)
      <3>1. CASE UNCHANGED table
        BY <2>7, <3>1, UnchangedSteady DEF DropLink, table, TableStep
      <3>2. CASE req[c].id \in LinkIDs /\ Withdraw(c, req[c].id)
        <4>1. UNCHANGED ghosts /\ account' = account /\ c \in Hands
          BY <2>7, <3>2 DEF DropLink, Withdraw, Hands
        <4> QED
          BY <3>2, <4>1, WithdrawTypes, WaneSteady DEF TableStep
      <3> QED
        BY <2>7, <3>1, <3>2 DEF DropLink, Rows
    <2> QED
      BY <1>1, <2>1, <2>2, <2>3, <2>4, <2>5, <2>6, <2>7 DEF Confirmation
  <1>2. CASE Plan \/ RemapOwners \/ RowsFail \/ Undo \/ Crash \/ UNCHANGED vars
    BY <1>2, UnchangedSteady DEF Plan, RemapOwners, RowsFail, Undo, Crash, vars, table, TableStep
  <1>3. CASE CompactRows
    BY <1>3 DEF TableStep
  <1>4. ASSUME NEW i \in IDs, Delete(i) PROVE TableStep
    BY <1>4 DEF Delete, TableStep
  <1>5. ASSUME NEW m \in Makers, Creation(m) PROVE TableStep
    <2>1. CASE Insert(m)
      BY <2>1 DEF TableStep
    <2>2. CASE PurgeFirst(m)
      <3>1. PurgeRows(m) /\ UNCHANGED ghosts /\ account' = account /\ m \in Hands
        BY <2>2 DEF PurgeFirst, PurgeRows, Hands
      <3> QED
        BY <3>1, PurgeTypes, WaneSteady DEF TableStep
    <2>3. CASE ~Insert(m) /\ ~PurgeFirst(m)
      BY <1>5, <2>3, UnchangedSteady DEF Creation, Resolve, ReadLinkOwner, List, Quit, table, TableStep
    <2> QED
      BY <2>1, <2>2, <2>3
  <1>6. ASSUME NEW k \in Cleaners, Cleaning(k) PROVE TableStep
    <2>1. UNCHANGED ghosts /\ account' = account /\ k \in Hands
      BY <1>6 DEF Cleaning, Purge, PurgeRows, Revoke, Withdraw, Hands
    <2>2. Wane
      BY <1>6, <2>1, WithdrawTypes, PurgeTypes DEF Cleaning, Purge, Revoke
    <2> QED
      BY <2>1, <2>2, WaneSteady DEF TableStep
  <1>7. ASSUME NEW l \in LinkIDs, Expire(l) PROVE TableStep
    <2>1. Wane
      BY <1>7 DEF Expire, Wane, TInv, LinkType, Rows
    <2> QED
      BY <1>7, <2>1, WaneSteady DEF Expire, TableStep
  <1>8. ASSUME NEW h \in Hands, Reclaiming(h) PROVE TableStep
    BY <1>8, UnchangedSteady DEF Reclaiming, SelectMax, WriteSeq, ReclaimFails, table, TableStep
  <1> QED
    BY <1>1, <1>2, <1>3, <1>4, <1>5, <1>6, <1>7, <1>8 DEF Next, Compaction

\* A link that is there after a step other than Insert was there before.
Inherited == \A l \in Rows' : /\ l \in Rows /\ link'[l].token = link[l].token /\ link'[l].home = link[l].home
                              /\ link'[l].spent = FALSE => link[l].spent = FALSE

LEMMA MovedLinks ==
    ASSUME TInv, CompactRows, NEW l \in LinkIDs
    PROVE  /\ l \in Rows' <=> l \in Rows
           /\ link'[l].token = link[l].token /\ link'[l].home = link[l].home /\ link'[l].spent = link[l].spent
           /\ l \in Rows => link'[l].account = IF link[l].account \in Moved THEN Rank(link[l].account)
                                                                            ELSE link[l].account
  <1>1. link'[l] = MovedLink(link[l]) /\ link[l] \in Link \cup {NoLink}
    BY DEF CompactRows, TInv, LinkType
  <1>2. CASE link[l].account \in Moved
    <2>1. Rank(link[l].account) \in IDs /\ link[l].account \in IDs
      BY <1>2, RankFacts DEF Moved, Taken
    <2>2. link[l] \in Link
      <3>1. 0 \notin IDs
        BY DEF IDs
      <3> QED
        BY <1>1, <2>1, <3>1 DEF NoLink
    <2>3. link'[l] = [link[l] EXCEPT !.account = Rank(link[l].account)]
      BY <1>1, <1>2 DEF MovedLink
    <2>4. link'[l] \in Link
      BY <2>1, <2>2, <2>3 DEF Link
    <2>5. l \in Rows' /\ l \in Rows
      BY <2>2, <2>4, NothingIsTyped DEF Rows
    <2>6. /\ link'[l].token = link[l].token /\ link'[l].home = link[l].home /\ link'[l].spent = link[l].spent
          /\ link'[l].account = Rank(link[l].account)
      BY <2>2, <2>3 DEF Link
    <2> QED
      BY <1>2, <2>5, <2>6
  <1>3. CASE link[l].account \notin Moved
    BY <1>1, <1>3 DEF MovedLink, Rows
  <1> QED
    BY <1>2, <1>3

LEMMA WaneInherits == ASSUME TInv, Wane PROVE Inherited
  <1> SUFFICES ASSUME NEW l \in Rows'
               PROVE  /\ l \in Rows /\ link'[l].token = link[l].token /\ link'[l].home = link[l].home
                      /\ link'[l].spent = FALSE => link[l].spent = FALSE
    BY DEF Inherited
  <1>1. l \in LinkIDs /\ link'[l] # NoLink
    BY DEF Rows
  <1>2. link[l] \in Link /\ l \in Rows
    BY <1>1 DEF Wane, Rows, TInv, LinkType
  <1>3. link'[l] \in {link[l], [link[l] EXCEPT !.spent = TRUE]}
    BY <1>1 DEF Wane
  <1> QED
    BY <1>2, <1>3 DEF Link
LEMMA RemovalInherits == ASSUME TInv, NEW i \in IDs, RemoveAccount(i) PROVE Inherited
  BY DEF RemoveAccount, Inherited, Rows
LEMMA InsertInherits == ASSUME NEW i \in IDs, Inserted(i) PROVE Inherited
  BY DEF Inserted, Inherited, Rows
LEMMA CompactInherits == ASSUME TInv, CompactRows PROVE Inherited
  BY MovedLinks DEF Inherited, Rows

--------------------------------------------------------------------------------
(* Links and the accounts they are for                                         *)

LEMMA LinkedAreTaken ==
    ASSUME TInv, LinksPointHome, NEW l \in Rows
    PROVE  link[l] \in Link /\ link[l].account \in Taken
  <1>1. link[l] \in Link
    BY DEF Rows, TInv, LinkType
  <1>2. link[l].account \in IDs /\ link[l].home # 0
    BY <1>1 DEF Link
  <1> QED
    BY <1>1, <1>2, TakenAreBorn DEF LinksPointHome

LEMMA HomeNext ==
    ASSUME TInv, LinksPointHome, [Next]_vars
    PROVE  LinksPointHome'
  <1>1. TableStep /\ TInv'
    BY TableSteps, TypesNext
  <1>2. CASE Steady
    <2>1. ASSUME NEW l \in Rows' PROVE account'[link'[l].account].born = link'[l].home
      <3>0. Inherited
        BY <1>2, WaneInherits DEF Steady
      <3>1. l \in Rows /\ link'[l].home = link[l].home
        BY <3>0 DEF Inherited
      <3>2. link[l] \in Link /\ link'[l] \in {link[l], [link[l] EXCEPT !.spent = TRUE]}
        BY <1>2, <3>1, LinkedAreTaken DEF Steady, Wane, Rows
      <3>3. link'[l].account = link[l].account /\ link[l].account \in IDs
        BY <3>2 DEF Link
      <3> QED
        BY <1>2, <3>1, <3>3 DEF Steady, SameBirths, LinksPointHome
    <2> QED
      BY <2>1 DEF LinksPointHome
  <1>3. ASSUME NEW i \in IDs, RemoveAccount(i) PROVE LinksPointHome'
    <2>1. ASSUME NEW l \in Rows' PROVE account'[link'[l].account].born = link'[l].home
      <3>1. l \in Rows /\ link'[l] = link[l] /\ link[l].account # i
        BY <1>3, <2>1 DEF RemoveAccount, Rows
      <3>2. link[l].account \in IDs
        BY <3>1, LinkedAreTaken DEF Link
      <3>3. account'[link[l].account] = account[link[l].account]
        BY <1>3, <3>1, <3>2 DEF RemoveAccount, TInv, AccountType
      <3> QED
        BY <3>1, <3>3 DEF LinksPointHome
    <2> QED
      BY <2>1 DEF LinksPointHome
  <1>4. ASSUME NEW i \in IDs, Inserted(i) PROVE LinksPointHome'
    <2>1. ASSUME NEW l \in Rows PROVE account'[link[l].account] = account[link[l].account]
      <3>1. link[l].account \in Taken /\ link[l].account # i
        BY <1>4, LinkedAreTaken DEF Inserted
      <3> QED
        BY <1>4, <3>1 DEF Inserted, TInv, AccountType, Taken
    <2> QED
      BY <1>4, <2>1 DEF Inserted, LinksPointHome, Rows
  <1>5. ASSUME NEW m \in Makers, Insert(m) PROVE LinksPointHome'
    <2>1. account' = account
      BY <1>5 DEF Insert
    <2>2. ASSUME NEW l \in Rows', l # NextLink PROVE account'[link'[l].account].born = link'[l].home
      <3>1. l \in LinkIDs /\ link'[l] = link[l] /\ link'[l] # NoLink
        BY <1>5, <2>2, InsertFacts DEF Rows, TInv, LinkType
      <3>2. l \in Rows /\ link'[l] = link[l]
        BY <3>1 DEF Rows
      <3> QED
        BY <2>1, <3>2 DEF LinksPointHome
    <2>3. link'[NextLink].account = make[m].account /\ link'[NextLink].home = account[make[m].account].born
      BY <1>5, InsertFacts DEF TInv, LinkType
    <2> QED
      BY <2>1, <2>2, <2>3 DEF LinksPointHome
  <1>6. CASE CompactRows
    <2>1. ASSUME NEW l \in Rows' PROVE account'[link'[l].account].born = link'[l].home
      <3>1. l \in LinkIDs
        BY DEF Rows
      <3>2. l \in Rows /\ link'[l].home = link[l].home
        BY <1>6, <2>1, <3>1, MovedLinks
      <3>3. link[l].account \in Taken
        BY <3>2, LinkedAreTaken
      <3>4. link'[l].account = Rank(link[l].account)
        BY <1>6, <3>1, <3>2, <3>3, MovedLinks DEF Moved
      <3> QED
        BY <1>6, <3>2, <3>3, <3>4, Renumbered DEF LinksPointHome
    <2> QED
      BY <2>1 DEF LinksPointHome
  <1> QED
    BY <1>1, <1>2, <1>3, <1>4, <1>5, <1>6 DEF TableStep

\* However accounts are deleted, inserted at freed IDs and renumbered, a link points at
\* one and the same account from its insertion on: the cascade and the renumbering of
\* links (store.go:719-768) are enough, for any number of accounts, links and requests.
THEOREM LinksPointHomeAlways == Spec => []LinksPointHome
  <1>1. Init => LinksPointHome
    BY DEF Init, LinksPointHome, Rows
  <1>2. TInv /\ LinksPointHome /\ [Next]_vars => TInv' /\ LinksPointHome'
    BY HomeNext, TypesNext
  <1> QED
    BY <1>1, <1>2, TypesInit, PTL DEF Spec

\* Tokens tell links apart: no two links have the same, and the link a request has
\* read can only be found again by its own.
RequestTokens == \A c \in Confirms : pc[c] # "idle" =>
                    /\ req[c].row.token <= tokens
                    /\ \A l \in Rows : link[l].token = req[c].row.token => link[l].home = req[c].row.home
LinkTokens == /\ \A l \in Rows : link[l].token <= tokens
              /\ \A l, k \in Rows : link[l].token = link[k].token => l = k

\* A request's link is the one it had, or has just been read.
ReadRow(c) == \/ pc[c] # "idle" /\ req'[c].row = req[c].row
              \/ UNCHANGED <<link, tokens>> /\ \E l \in Rows : req'[c].row = link[l]

LEMMA RowsRead ==
    ASSUME TInv, [Next]_vars, NEW d \in Confirms, pc'[d] # "idle"
    PROVE  ReadRow(d)
  <1>0. pc[d] # "idle" => req[d] \in Requests
    BY DEF TInv, RequestType, Knows
  <1>1. UNCHANGED confirm => ReadRow(d)
    BY DEF confirm, ReadRow
  <1>2. ASSUME NEW c \in Confirms, Confirmation(c) PROVE ReadRow(d)
    <2>0. pc[c] # "idle" => req[c] \in Requests
      BY DEF TInv, RequestType, Knows
    <2>1. CASE d # c
      <3>1. pc[d] = pc'[d] /\ req'[d] = req[d]
        BY <1>2, <2>1 DEF Confirmation, Open, Check, Update, Consume, Exists, Store, ReadOwner, Claim, Rollback,
                        DropLink, Goto, Finish, GiveUp, Claimed, TInv, RequestType
      <3> QED
        BY <3>1 DEF ReadRow
    <2>2. CASE d = c /\ Open(c)
      <3>1. PICK l \in Rows : req' = [req EXCEPT ![c].id = l, ![c].row = link[l]]
        BY <2>2 DEF Open
      <3>2. req'[c].row = link[l]
        <4>1. req[c] = NoRequest
          BY <2>2 DEF Open, TInv, RequestType, Knows
        <4> QED
          BY <3>1, <4>1 DEF NoRequest, TInv, RequestType
      <3> QED
        BY <2>2, <3>2 DEF Open, ReadRow, table, ghosts
    <2>3. CASE d = c /\ Check(c)
      <3>1. PICK openid \in OpenIDs : req' = [req EXCEPT ![c].scan = openid]
        BY <2>3 DEF Check, Finish, TInv, RequestType
      <3> QED
        BY <2>0, <2>3, <3>1 DEF Check, ReadRow, Requests, TInv, RequestType
    <2>4. CASE d = c /\ Exists(c)
      BY <2>0, <2>4 DEF Exists, ReadRow, Requests, TInv, RequestType
    <2>5. CASE d = c /\ Store(c)
      BY <2>0, <2>5 DEF Store, ReadRow, Requests, TInv, RequestType
    <2>6. CASE d = c /\ (Update(c) \/ Rollback(c) \/ DropLink(c))
      BY <2>6 DEF Update, Rollback, DropLink, Finish, TInv, RequestType
    <2>7. CASE d = c /\ (Consume(c) \/ ReadOwner(c) \/ Claim(c))
      <3>1. pc[c] # "idle" /\ req' = req
        BY <2>7 DEF Consume, ReadOwner, Claim, Claimed, GiveUp, Goto, Finish, TInv, RequestType
      <3> QED
        BY <2>7, <3>1 DEF ReadRow
    <2> QED
      BY <1>2, <2>1, <2>2, <2>3, <2>4, <2>5, <2>6, <2>7 DEF Confirmation
  <1>3. CASE Crash
    BY <1>3 DEF Crash
  <1> QED
    BY <1>1, <1>2, <1>3, LinkKeeping DEF Next, Compaction, Plan, RemapOwners, CompactRows, RowsFail, Undo, Delete,
                                        Expire, vars

Tokens == RequestTokens /\ LinkTokens

LEMMA TokensAreNumbers ==
    ASSUME TInv
    PROVE  /\ tokens \in Nat
           /\ \A l \in Rows : link[l] \in Link /\ link[l].token \in Nat
           /\ \A c \in Confirms : pc[c] # "idle" => req[c].row.token \in Nat
  <1>1. \A l \in Rows : link[l] \in Link
    BY DEF Rows, TInv, LinkType
  <1>2. \A c \in Confirms : pc[c] # "idle" => req[c].row \in Link
    BY DEF TInv, RequestType, Knows, Requests
  <1>3. \A row \in Link : row.token \in Nat
    BY DEF Link
  <1>4. tokens \in Nat
    BY LinksAssumption DEF TInv, LinkType
  <1> QED
    BY <1>1, <1>2, <1>3, <1>4

LEMMA InsertedRow ==
    ASSUME TInv, NEW m \in Makers, Insert(m)
    PROVE  /\ NextLink \in Rows' /\ link'[NextLink].token = tokens + 1
           /\ \A l \in Rows' \ {NextLink} : l \in Rows /\ link'[l] = link[l]
  <1>1. NextLink \in LinkIDs /\ tokens + 1 # 0
    BY InsertFacts, TokensAreNumbers
  <1>2. link'[NextLink].token = tokens + 1
    BY <1>1, InsertFacts DEF TInv, LinkType
  <1>3. NextLink \in Rows'
    BY <1>1, <1>2 DEF Rows, NoLink
  <1>4. ASSUME NEW l \in Rows' \ {NextLink} PROVE l \in Rows /\ link'[l] = link[l]
    BY <1>4, InsertFacts DEF Rows, TInv, LinkType
  <1> QED
    BY <1>2, <1>3, <1>4

LEMMA TokensNext ==
    ASSUME TInv, Tokens, [Next]_vars
    PROVE  Tokens'
  <1>1. TableStep
    BY TableSteps
  <1>2. ASSUME Inherited, tokens' = tokens PROVE Tokens'
    <2>1. LinkTokens'
      BY <1>2 DEF Inherited, Tokens, LinkTokens
    <2>2. ASSUME NEW c \in Confirms, pc'[c] # "idle"
          PROVE  /\ req'[c].row.token <= tokens'
                 /\ \A l \in Rows' : link'[l].token = req'[c].row.token => link'[l].home = req'[c].row.home
      <3>1. CASE pc[c] # "idle" /\ req'[c].row = req[c].row
        BY <1>2, <3>1 DEF Inherited, Tokens, RequestTokens
      <3>2. CASE UNCHANGED <<link, tokens>> /\ \E l \in Rows : req'[c].row = link[l]
        BY <3>2 DEF Tokens, LinkTokens, Rows
      <3> QED
        BY <2>2, <3>1, <3>2, RowsRead DEF ReadRow
    <2> QED
      BY <2>1, <2>2 DEF Tokens, RequestTokens
  <1>3. ASSUME NEW m \in Makers, Insert(m) PROVE Tokens'
    <2>1. tokens' = tokens + 1 /\ tokens \in Nat
      BY <1>3, TokensAreNumbers DEF Insert
    <2> DEFINE new == NextLink
    <2>0. ASSUME NEW l \in Rows'
          PROVE  IF l = new THEN link'[l].token = tokens + 1
                 ELSE l \in Rows /\ link'[l] = link[l] /\ link[l].token \in Nat /\ link[l].token <= tokens
      <3>1. CASE l = new
        BY <1>3, <3>1, InsertedRow
      <3>2. CASE l # new
        <4>1. l \in Rows /\ link'[l] = link[l]
          BY <1>3, <2>0, <3>2, InsertedRow
        <4> QED
          BY <3>2, <4>1, TokensAreNumbers DEF Tokens, LinkTokens
      <3> QED
        BY <3>1, <3>2
    <2> HIDE DEF new
    <2>2. LinkTokens'
      <3>1. \A l \in Rows' : link'[l].token <= tokens'
        BY <2>0, <2>1
      <3>2. ASSUME NEW l \in Rows', NEW k \in Rows', link'[l].token = link'[k].token PROVE l = k
        <4>1. CASE l = new
          BY <2>0, <2>1, <3>2, <4>1
        <4>2. CASE l # new /\ k # new
          BY <1>3, <2>0, <3>2, <4>2 DEF Tokens, LinkTokens
        <4>3. CASE l # new /\ k = new
          BY <2>0, <2>1, <3>2, <4>3
        <4> QED
          BY <4>1, <4>2, <4>3
      <3> QED
        BY <3>1, <3>2 DEF LinkTokens
    <2>3. ASSUME NEW c \in Confirms, pc'[c] # "idle"
          PROVE  /\ req'[c].row.token <= tokens'
                 /\ \A l \in Rows' : link'[l].token = req'[c].row.token => link'[l].home = req'[c].row.home
      <3>1. pc[c] # "idle" /\ req'[c].row = req[c].row
        BY <1>3, <2>3 DEF Insert, confirm
      <3>2. req[c].row.token <= tokens /\ req[c].row.token \in Nat
        BY <3>1, TokensAreNumbers DEF Tokens, RequestTokens
      <3> QED
        BY <2>0, <2>1, <3>1, <3>2 DEF Tokens, RequestTokens
    <2> QED
      BY <2>2, <2>3 DEF Tokens, RequestTokens
  <1>4. Steady => Inherited /\ tokens' = tokens
    BY WaneInherits DEF Steady, ghosts
  <1>5. \A i \in IDs : RemoveAccount(i) /\ UNCHANGED ghosts => Inherited /\ tokens' = tokens
    BY RemovalInherits DEF ghosts
  <1>6. \A i \in IDs : Inserted(i) => Inherited /\ tokens' = tokens
    BY InsertInherits DEF Inserted
  <1>7. CompactRows => Inherited /\ tokens' = tokens
    BY CompactInherits DEF CompactRows, ghosts
  <1> QED
    BY <1>1, <1>2, <1>3, <1>4, <1>5, <1>6, <1>7 DEF TableStep

\* The link a request has read, if it is still there, leads to the same account: so a
\* scan replaces the authorization of that account only (account_rebind.go:40-43),
\* for any number of requests and of accounts deleted and renumbered meanwhile.
THEOREM UpdatesItsOwnAccountAlways == Spec => UpdatesItsOwnAccount
  <1>1. Init => Tokens
    BY DEF Init, Tokens, RequestTokens, LinkTokens, Rows
  <1>2. TInv /\ Tokens /\ [Next]_vars => Tokens'
    BY TokensNext
  <1>3. ASSUME TInv, Tokens, LinksPointHome, [Next]_vars, NEW c \in Confirms,
               pc[c] = "update", pc'[c] = "idle", table' # table
        PROVE  /\ Active(req[c].row.token)
               /\ account[req[c].row.account].born = req[c].row.home
               /\ account[req[c].row.account].openid = req[c].row.expected
    <2>1. Update(c)
      <3>1. ASSUME NEW d \in Confirms, Confirmation(d), d # c PROVE FALSE
        BY <1>3, <3>1 DEF Confirmation, Open, Check, Update, Consume, Exists, Store, ReadOwner, Claim, Rollback,
                         DropLink, Goto, Finish, GiveUp, Claimed, TInv, RequestType
      <3>2. ASSUME Confirmation(c) PROVE Update(c)
        BY <1>3, <3>2 DEF Confirmation, Open, Check, Update, Consume, Exists, Store, ReadOwner, Claim, Rollback,
                         DropLink
      <3>3. ~Crash
        BY <1>3 DEF Crash
      <3>4. ~UNCHANGED confirm
        BY <1>3 DEF confirm
      <3> QED
        BY <1>3, <3>1, <3>2, <3>3, <3>4, LinkKeeping
           DEF Next, Compaction, Plan, RemapOwners, CompactRows, RowsFail, Undo, Delete, Expire, vars
    <2>2. StillLinked(c) /\ Expected(c)
      BY <1>3, <2>1 DEF Update
    <2>3. req[c].id \in LinkIDs
      BY <1>3 DEF TInv, RequestType, Knows, Requests
    <2>4. req[c].id \in Rows
      BY <2>2, <2>3 DEF StillLinked, Rows, NoLink
    <2>5. link[req[c].id].home = req[c].row.home
      BY <1>3, <2>2, <2>4 DEF StillLinked, Tokens, RequestTokens
    <2>6. Active(req[c].row.token)
      BY <2>2, <2>4 DEF StillLinked, Active
    <2>7. account[req[c].row.account].born = req[c].row.home
      BY <1>3, <2>2, <2>4, <2>5 DEF StillLinked, LinksPointHome
    <2> QED
      BY <2>2, <2>6, <2>7 DEF Expected
  <1>4. TInv /\ Tokens /\ LinksPointHome /\ [Next]_vars
        => [\A c \in Confirms : (pc[c] = "update" /\ pc'[c] = "idle" /\ table' # table) =>
              /\ Active(req[c].row.token)
              /\ account[req[c].row.account].born = req[c].row.home
              /\ account[req[c].row.account].openid = req[c].row.expected]_vars
    BY <1>3
  <1> QED
    BY <1>1, <1>2, <1>4, TypesInit, TypesNext, LinksPointHomeAlways, PTL DEF Spec, UpdatesItsOwnAccount

--------------------------------------------------------------------------------
(* Every account added has used up a link                                      *)

Fresh == {l \in Rows : link[l].spent = FALSE}
Pending == {c \in Confirms : pc[c] \in {"exists", "store"}}

\* Links made pay for the accounts added, those about to be, and the links unused.
Budget == /\ IsFiniteSet(Pending)
          /\ births - MaxID + Cardinality(Pending) + Cardinality(Fresh) <= tokens

LEMMA Counts ==
    ASSUME TInv, IsFiniteSet(Pending)
    PROVE  /\ births \in Nat /\ tokens \in Nat /\ MaxID \in Nat
           /\ IsFiniteSet(Fresh) /\ Cardinality(Fresh) \in Nat /\ Cardinality(Pending) \in Nat
  <1>1. IsFiniteSet(LinkIDs) /\ Fresh \in SUBSET LinkIDs
    BY LinksAssumption, FS_Interval DEF LinkIDs, Fresh, Rows
  <1>2. IsFiniteSet(Fresh)
    BY <1>1, FS_Subset
  <1> QED
    BY <1>2, FS_CardinalityType, LinksAssumption, TokensAreNumbers DEF TInv, AccountType

LEMMA Shrinks ==
    ASSUME TInv, Budget, births' = births, tokens' = tokens, Fresh' \subseteq Fresh, Pending' \subseteq Pending
    PROVE  Budget'
  <1>1. Fresh' \in SUBSET Fresh /\ Pending' \in SUBSET Pending
    OBVIOUS
  <1>2. IsFiniteSet(Fresh') /\ Cardinality(Fresh') <= Cardinality(Fresh)
    BY <1>1, Counts, FS_Subset DEF Budget
  <1>3. IsFiniteSet(Pending') /\ Cardinality(Pending') <= Cardinality(Pending)
    BY <1>1, FS_Subset DEF Budget
  <1>4. Cardinality(Fresh') \in Nat /\ Cardinality(Pending') \in Nat
    BY <1>2, <1>3, FS_CardinalityType
  <1> QED
    BY <1>2, <1>3, <1>4, Counts DEF Budget

LEMMA FreshShrinks == ASSUME Inherited PROVE Fresh' \subseteq Fresh
  BY DEF Inherited, Fresh

LEMMA PendingShrinks ==
    ASSUME TInv, NEW c \in Confirms, Confirmation(c)
    PROVE  /\ Consume(c) \/ Pending' \subseteq Pending
           /\ Consume(c) => Pending' \subseteq Pending \cup {c}
           /\ Store(c) => Pending' = Pending \ {c} /\ c \in Pending
           /\ Store(c) \/ births' = births
           /\ tokens' = tokens
  <1>1. \A d \in Confirms : d # c => pc'[d] = pc[d]
    BY DEF Confirmation, Open, Check, Update, Consume, Exists, Store, ReadOwner, Claim, Rollback, DropLink,
           Goto, Finish, GiveUp, Claimed, TInv, RequestType
  <1>2. pc'[c] \in {"exists", "store"} => Consume(c) \/ (Exists(c) /\ pc[c] = "exists")
    BY DEF Confirmation, Open, Check, Update, Consume, Exists, Store, ReadOwner, Claim, Rollback, DropLink,
           Goto, Finish, GiveUp, Claimed, TInv, RequestType
  <1>3. Store(c) => pc[c] = "store" /\ pc'[c] = "owner"
    BY DEF Store, TInv, RequestType
  <1>4. Store(c) \/ births' = births
    BY DEF Confirmation, Open, Check, Update, Consume, Exists, ReadOwner, Claim, Rollback, DropLink, ghosts
  <1>5. tokens' = tokens
    BY DEF Confirmation, Open, Check, Update, Consume, Exists, Store, ReadOwner, Claim, Rollback, DropLink, ghosts
  <1> QED
    BY <1>1, <1>2, <1>3, <1>4, <1>5 DEF Pending

LEMMA BudgetNext ==
    ASSUME TInv, Budget, [Next]_vars
    PROVE  Budget'
  <1>0. TableStep
    BY TableSteps
  <1>1. ASSUME births' = births, tokens' = tokens, Pending' \subseteq Pending PROVE Budget'
    <2>1. Inherited
      <3>1. \A i \in IDs : ~Inserted(i)
        BY <1>1 DEF Inserted, TInv, AccountType
      <3>2. \A m \in Makers : ~Insert(m)
        BY <1>1, TokensAreNumbers DEF Insert
      <3> QED
        BY <1>0, <3>1, <3>2, WaneInherits, RemovalInherits, CompactInherits DEF TableStep, Steady
    <2> QED
      BY <1>1, <2>1, FreshShrinks, Shrinks
  <1>2. ASSUME NEW c \in Confirms, Consume(c) PROVE Budget'
    <2>0. births' = births /\ tokens' = tokens /\ Pending' \subseteq Pending \cup {c}
      BY <1>2, PendingShrinks DEF Consume, ghosts, Confirmation
    <2>1. CASE Finish(c)
      <3>1. Pending' \subseteq Pending
        BY <2>1 DEF Finish, Pending, TInv, RequestType
      <3> QED
        BY <1>1, <2>0, <3>1
    <2>2. CASE req[c].id \in Rows /\ ~link[req[c].id].spent /\ link' = [link EXCEPT ![req[c].id].spent = TRUE]
      <3> DEFINE l == req[c].id
      <3>1. l \in LinkIDs /\ link[l] \in Link
        BY <2>2, TokensAreNumbers DEF Rows
      <3>2. l \in Fresh
        BY <2>2, <3>1 DEF Fresh, Link
      <3>3. link'[l].spent = TRUE
        BY <2>2, <3>1 DEF Link, TInv, LinkType
      <3>4. Wane
        BY <2>2 DEF Wane, TInv, LinkType, Rows
      <3>5. Fresh' \subseteq Fresh \ {l}
        BY <3>3, <3>4, WaneInherits, FreshShrinks DEF Fresh
      <3> HIDE DEF l
      <3>6. IsFiniteSet(Fresh \ {l}) /\ Cardinality(Fresh \ {l}) = Cardinality(Fresh) - 1
        BY <3>2, Counts, FS_RemoveElement DEF Budget
      <3>7. IsFiniteSet(Fresh') /\ Cardinality(Fresh') <= Cardinality(Fresh) - 1
        <4>1. Fresh' \in SUBSET (Fresh \ {l})
          BY <3>5
        <4>2. IsFiniteSet(Fresh') /\ Cardinality(Fresh') <= Cardinality(Fresh \ {l})
          BY <3>6, <4>1, FS_Subset
        <4> QED
          BY <3>6, <4>2
      <3>8. IsFiniteSet(Pending') /\ Cardinality(Pending') <= Cardinality(Pending) + 1
        <4>1. Pending' \in SUBSET (Pending \cup {c})
          BY <2>0
        <4>2. /\ IsFiniteSet(Pending \cup {c}) /\ Cardinality(Pending) \in Nat
              /\ Cardinality(Pending \cup {c}) <= Cardinality(Pending) + 1
          <5>1. IsFiniteSet(Pending)
            BY DEF Budget
          <5>2. /\ IsFiniteSet(Pending \cup {c})
                /\ Cardinality(Pending \cup {c}) = IF c \in Pending THEN Cardinality(Pending)
                                                                  ELSE Cardinality(Pending) + 1
            BY <5>1, FS_AddElement
          <5>3. Cardinality(Pending) \in Nat
            BY <5>1, FS_CardinalityType
          <5> QED
            BY <5>2, <5>3
        <4>3. IsFiniteSet(Pending') /\ Cardinality(Pending') <= Cardinality(Pending \cup {c})
          BY <4>1, <4>2, FS_Subset
        <4>4. Cardinality(Pending') \in Nat /\ Cardinality(Pending \cup {c}) \in Nat
          BY <4>2, <4>3, FS_CardinalityType
        <4> QED
          BY <4>2, <4>3, <4>4
      <3>9. Cardinality(Fresh') \in Nat /\ Cardinality(Pending') \in Nat
        BY <3>7, <3>8, FS_CardinalityType
      <3> QED
        BY <2>0, <3>7, <3>8, <3>9, Counts DEF Budget
    <2> QED
      BY <1>2, <2>1, <2>2 DEF Consume
  <1>3. ASSUME NEW c \in Confirms, Store(c) PROVE Budget'
    <2>1. Pending' = Pending \ {c} /\ c \in Pending /\ tokens' = tokens
      BY <1>3, PendingShrinks DEF Confirmation
    <2>2. Fresh' = Fresh /\ births' \in {births, births + 1}
      BY <1>3 DEF Store, Fresh, Rows
    <2>3. IsFiniteSet(Pending')
      <3>1. Pending' \in SUBSET Pending
        BY <2>1
      <3> QED
        BY <3>1, FS_Subset DEF Budget
    <2>4. Cardinality(Pending') = Cardinality(Pending) - 1
      BY <2>1, FS_RemoveElement DEF Budget
    <2> QED
      BY <2>1, <2>2, <2>3, <2>4, Counts DEF Budget
  <1>4. ASSUME NEW m \in Makers, Insert(m) PROVE Budget'
    <2>1. Pending' = Pending /\ births' = births /\ tokens' = tokens + 1
      BY <1>4 DEF Insert, confirm, Pending
    <2>2. Fresh' \subseteq Fresh \cup {NextLink}
      BY <1>4, InsertedRow DEF Fresh
    <2> DEFINE new == NextLink
    <2> HIDE DEF new
    <2>3. IsFiniteSet(Fresh \cup {new}) /\ Cardinality(Fresh \cup {new}) <= Cardinality(Fresh) + 1
      <3>1. IsFiniteSet(Fresh) /\ Cardinality(Fresh) \in Nat
        BY Counts DEF Budget
      <3>2. /\ IsFiniteSet(Fresh \cup {new})
            /\ Cardinality(Fresh \cup {new}) = IF new \in Fresh THEN Cardinality(Fresh)
                                                               ELSE Cardinality(Fresh) + 1
        BY <3>1, FS_AddElement
      <3> QED
        BY <3>1, <3>2
    <2>4. Fresh' \in SUBSET (Fresh \cup {new})
      BY <2>2 DEF new
    <2>5. IsFiniteSet(Fresh') /\ Cardinality(Fresh') <= Cardinality(Fresh \cup {new})
      BY <2>3, <2>4, FS_Subset
    <2>6. Cardinality(Fresh') \in Nat /\ Cardinality(Fresh \cup {new}) \in Nat
      BY <2>3, <2>5, FS_CardinalityType
    <2> QED
      BY <2>1, <2>3, <2>5, <2>6, Counts DEF Budget
  <1>5. ASSUME NEW c \in Confirms, Confirmation(c), ~Consume(c), ~Store(c) PROVE Budget'
    BY <1>1, <1>5, PendingShrinks
  <1>6. ASSUME UNCHANGED <<births, tokens>>, UNCHANGED confirm \/ Crash PROVE Budget'
    <2>1. Pending' \subseteq Pending
      BY <1>6 DEF Pending, confirm, Crash
    <2> QED
      BY <1>1, <1>6, <2>1
  <1>7. ASSUME NEW m \in Makers, Creation(m), ~Insert(m) PROVE Budget'
    BY <1>6, <1>7, LinkKeeping
       DEF Creation, Resolve, ReadLinkOwner, PurgeFirst, List, Quit, ghosts
  <1> QED
    BY <1>2, <1>3, <1>4, <1>5, <1>6, <1>7, LinkKeeping
       DEF Next, Compaction, Plan, RemapOwners, CompactRows, RowsFail, Undo, Crash, Delete, Expire, ghosts, vars

\* Links are reserved before an account is stored, so however many requests confirm
\* them at once, and whatever happens to the links meanwhile, no more accounts are
\* added than links were made (account_links.go:100): for any numbers of either.
THEOREM AddsWithinLinksAlways == Spec => []AddsWithinLinks
  <1>1. Init => Budget
    <2> SUFFICES ASSUME Init PROVE Budget
      OBVIOUS
    <2>1. Pending = {} /\ Fresh = {}
      BY DEF Init, Pending, Fresh, Rows
    <2>2. IsFiniteSet({}) /\ Cardinality({}) = 0
      BY FS_EmptySet
    <2>3. births = MaxID /\ tokens = 0 /\ MaxID \in Nat
      BY LinksAssumption DEF Init
    <2> QED
      BY <2>1, <2>2, <2>3 DEF Budget
  <1>2. TInv /\ Budget /\ [Next]_vars => Budget'
    BY BudgetNext
  <1>3. TInv /\ Budget => AddsWithinLinks
    BY Counts DEF Budget, AddsWithinLinks
  <1> QED
    BY <1>1, <1>2, <1>3, TypesInit, TypesNext, PTL DEF Spec

--------------------------------------------------------------------------------
(* Owners through a compaction                                                 *)

\* No two accounts were inserted at once.
Numbered == \A i, j \in Taken : account[i].born = account[j].born => i = j

LEMMA NumberedNext ==
    ASSUME TInv, Numbered, [Next]_vars
    PROVE  Numbered'
  <1>1. TableStep /\ TInv'
    BY TableSteps, TypesNext
  <1>2. CASE Steady
    <2>1. ASSUME NEW i \in Taken' PROVE i \in Taken /\ account'[i].born = account[i].born
      <3>1. i \in IDs /\ account'[i] # NoAccount
        BY <2>1 DEF Taken
      <3>2. account'[i].born # 0
        BY <1>1, <3>1 DEF TInv, AccountType, Accounts
      <3> QED
        BY <1>2, <3>1, <3>2, TakenAreBorn DEF Steady, SameBirths
    <2> QED
      BY <2>1 DEF Numbered
  <1>3. ASSUME NEW i \in IDs, RemoveAccount(i) PROVE Numbered'
    BY <1>3 DEF RemoveAccount, Numbered, Taken, TInv, AccountType
  <1>4. ASSUME NEW i \in IDs, Inserted(i) PROVE Numbered'
    <2>1. account'[i].born = births + 1 /\ births \in Nat
      BY <1>4 DEF Inserted, TInv, AccountType
    <2>2. ASSUME NEW j \in Taken', j # i PROVE j \in Taken /\ account'[j] = account[j] /\ account[j].born \in 1..births
      <3>1. j \in IDs /\ account'[j] = account[j] /\ account[j] # NoAccount
        BY <1>4, <2>2 DEF Inserted, Taken, TInv, AccountType
      <3> QED
        BY <3>1 DEF Taken, TInv, AccountType, Accounts
    <2> QED
      BY <2>1, <2>2 DEF Numbered
  <1>5. ASSUME NEW m \in Makers, Insert(m) PROVE Numbered'
    BY <1>5 DEF Insert, Numbered, Taken
  <1>6. CASE CompactRows
    <2> SUFFICES ASSUME NEW k \in Taken', NEW n \in Taken', account'[k].born = account'[n].born
                 PROVE  k = n
      BY DEF Numbered
    <2>1. PICK i \in Taken : k = Rank(i)
      BY <1>6, Renumbered
    <2>2. PICK j \in Taken : n = Rank(j)
      BY <1>6, Renumbered
    <2>3. account[i].born = account[j].born
      BY <1>6, <2>1, <2>2, Renumbered
    <2> QED
      BY <2>1, <2>2, <2>3 DEF Numbered
  <1> QED
    BY <1>1, <1>2, <1>3, <1>4, <1>5, <1>6 DEF TableStep

\* The records follow the accounts to their new IDs, whatever records of deleted
\* accounts there are, ...
LEMMA RemapForward ==
    ASSUME NEW i \in Taken, owner[i] # None
    PROVE  Remapped(Mapping)[Rank(i)] = owner[i]
  <1>1. Rank(i) \in IDs /\ DOMAIN Mapping = Moved /\ \A j \in Moved : j \in Taken /\ Mapping[j] = Rank(j)
    BY RankFacts DEF Mapping, Moved
  <1>2. CASE i \in Moved
    <2>1. (CHOOSE j \in DOMAIN Mapping : Mapping[j] = Rank(i)) = i
      BY <1>1, <1>2, RankInjective
    <2> QED
      BY <1>1, <1>2, <2>1 DEF Remapped
  <1>3. CASE i \notin Moved
    <2>1. Rank(i) = i
      BY <1>3 DEF Moved
    <2>2. ~ \E j \in DOMAIN Mapping : Mapping[j] = i
      BY <1>1, <1>3, <2>1, RankInjective
    <2> QED
      BY <1>1, <1>3, <2>1, <2>2 DEF Remapped
  <1> QED
    BY <1>2, <1>3

\* ... and back again.
LEMMA RemapBack ==
    ASSUME NEW i \in Taken, owner[Rank(i)] # None
    PROVE  Remapped(Reversed(Mapping))[i] = owner[Rank(i)]
  <1> DEFINE back == Reversed(Mapping)
  <1>1. i \in IDs /\ DOMAIN Mapping = Moved /\ \A j \in Moved : j \in Taken /\ Mapping[j] = Rank(j)
    BY RankFacts DEF Mapping, Moved, Taken
  <1>2. DOMAIN back = {Rank(j) : j \in Moved}
    BY <1>1 DEF Reversed
  <1>3. ASSUME NEW j \in Moved PROVE back[Rank(j)] = j
    <2>1. (CHOOSE k \in DOMAIN Mapping : Mapping[k] = Rank(j)) = j
      BY <1>1, RankInjective
    <2>2. Rank(j) \in {Mapping[k] : k \in DOMAIN Mapping}
      BY <1>1
    <2> QED
      BY <2>1, <2>2 DEF Reversed
  <1> HIDE DEF back
  <1>4. CASE i \in Moved
    <2>1. Rank(i) \in DOMAIN back /\ back[Rank(i)] = i
      BY <1>2, <1>3, <1>4
    <2>2. ASSUME NEW k \in DOMAIN back, back[k] = i PROVE k = Rank(i)
      BY <1>2, <1>3, <2>2
    <2>3. (CHOOSE k \in DOMAIN back : back[k] = i) = Rank(i)
      BY <2>1, <2>2
    <2> QED
      BY <1>1, <2>1, <2>3 DEF Remapped, back
  <1>5. CASE i \notin Moved
    <2>1. Rank(i) = i
      BY <1>5 DEF Moved
    <2>2. ~ \E k \in DOMAIN back : back[k] = i
      BY <1>2, <1>3, <1>5
    <2>3. i \notin DOMAIN back
      BY <1>1, <1>2, <1>5, <2>1, RankInjective
    <2> QED
      BY <1>1, <2>1, <2>2, <2>3 DEF Remapped, back
  <1> QED
    BY <1>4, <1>5

\* While nothing has run into a compaction, the owners it found are still known by
\* the accounts' births: at their IDs before the records have moved, at their ranks
\* from then on.
OwnerAt(born, user) == \E i \in Taken : account[i].born = born /\ owner[i] = user
OwnerAtRank(born, user) == \E i \in Taken : account[i].born = born /\ owner[Rank(i)] = user
OwnersFollow ==
    quiet /\ cpc # "idle" =>
       /\ plan = Mapping
       /\ \A born \in DOMAIN was : was[born] # None
       /\ cpc = "owners" => \A born \in DOMAIN was : OwnerAt(born, was[born])
       /\ cpc # "owners" => \A born \in DOMAIN was : OwnerAtRank(born, was[born])

\* Ownership by birth, as a function.
LEMMA ByBirth ==
    ASSUME NEW T, NEW acc, NEW own, \A i, j \in T : acc[i].born = acc[j].born => i = j,
           NEW f, f = [born \in {acc[i].born : i \in {j \in T : own[j] # None}} |->
                          own[CHOOSE i \in T : acc[i].born = born]]
    PROVE  /\ \A i \in T : own[i] # None => acc[i].born \in DOMAIN f /\ f[acc[i].born] = own[i]
           /\ \A born \in DOMAIN f : f[born] # None /\ \E i \in T : acc[i].born = born /\ own[i] = f[born]
  <1>1. ASSUME NEW i \in T, own[i] # None PROVE acc[i].born \in DOMAIN f /\ f[acc[i].born] = own[i]
    <2>1. acc[i].born \in {acc[j].born : j \in {k \in T : own[k] # None}}
      BY <1>1
    <2>2. (CHOOSE j \in T : acc[j].born = acc[i].born) = i
      OBVIOUS
    <2> QED
      BY <2>1, <2>2
  <1>2. ASSUME NEW born \in DOMAIN f
        PROVE  f[born] # None /\ \E i \in T : acc[i].born = born /\ own[i] = f[born]
    <2>1. PICK i \in T : own[i] # None /\ acc[i].born = born
      BY <1>2
    <2> QED
      BY <1>1, <2>1
  <1> QED
    BY <1>1, <1>2

\* A step other than the compaction's own ends it, runs into it or lets it be.
Aside == \/ cpc' = "idle" \/ ~quiet'
         \/ UNCHANGED <<owner, compaction>> /\ Taken' = Taken /\ SameBirths

LEMMA SteadyTaken == ASSUME TInv, TInv', SameBirths PROVE Taken' = Taken
  <1>1. \A i \in IDs : (account[i] # NoAccount <=> account[i].born # 0)
                     /\ (account'[i] # NoAccount <=> account'[i].born # 0)
    BY DEF TInv, AccountType, Accounts, NoAccount
  <1> QED
    BY <1>1 DEF Taken, SameBirths

LEMMA StepsAside ==
    ASSUME TInv, [Next]_vars
    PROVE  Compaction \/ Aside
  <1>0. TInv' /\ quiet \in BOOLEAN
    BY TypesNext DEF TInv, PlanType
  <1>1. Disturb => Aside
    BY DEF Disturb, Aside
  <1>2. UNCHANGED <<account, owner, compaction>> => Aside
    BY DEF Aside, SameBirths, Taken
  <1>3. ASSUME NEW c \in Confirms, Confirmation(c) PROVE Aside
    <2>1. CASE Update(c)
      BY <1>0, <2>1, UpdateSteady, SteadyTaken DEF Update, Steady, Aside
    <2>2. CASE Open(c) \/ Check(c) \/ Consume(c) \/ Exists(c) \/ ReadOwner(c)
      BY <1>2, <2>2 DEF Open, Check, Consume, Exists, ReadOwner, table
    <2>3. CASE Store(c)
      BY <1>1, <1>2, <2>3 DEF Store
    <2>4. CASE Claim(c) \/ Rollback(c)
      BY <1>1, <2>4 DEF Claim, Rollback
    <2>5. CASE DropLink(c)
      BY <1>2, <2>5 DEF DropLink, Withdraw, table
    <2> QED
      BY <1>3, <2>1, <2>2, <2>3, <2>4, <2>5 DEF Confirmation
  <1>4. \A i \in IDs : Delete(i) => Aside
    BY <1>1 DEF Delete
  <1>5. \A m \in Makers : Creation(m) => Aside
    BY <1>2, LinkKeeping
  <1>6. \A k \in Cleaners : Cleaning(k) => Aside
    BY <1>2, LinkKeeping
  <1>7. \A h \in Hands : Reclaiming(h) => Aside
    BY <1>2, LinkKeeping
  <1>10. \A l \in LinkIDs : Expire(l) => Aside
    BY <1>2 DEF Expire
  <1>9. UNCHANGED vars => Aside
    BY <1>2 DEF vars, table
  <1>8. Crash => Aside
    BY DEF Crash, Ended, Aside
  <1> QED
    BY <1>3, <1>4, <1>5, <1>6, <1>7, <1>8, <1>9, <1>10 DEF Next

LEMMA MappingStays ==
    ASSUME Taken' = Taken
    PROVE  Mapping' = Mapping /\ \A i \in Taken : Rank(i)' = Rank(i)
  BY DEF Mapping, Moved, Rank

LEMMA FollowNext ==
    ASSUME TInv, Numbered, OwnersFollow, [Next]_vars
    PROVE  OwnersFollow'
  <1>1. CASE Aside
    <2>1. CASE cpc' = "idle" \/ ~quiet'
      BY <2>1 DEF OwnersFollow
    <2>2. CASE UNCHANGED <<owner, compaction>> /\ Taken' = Taken /\ SameBirths
      <3>1. Mapping' = Mapping /\ \A i \in Taken : Rank(i)' = Rank(i)
        BY <2>2, MappingStays
      <3>2. \A i \in Taken : account'[i].born = account[i].born
        BY <2>2 DEF SameBirths, Taken
      <3>3. \A born, user : OwnerAt(born, user) => OwnerAt(born, user)'
        BY <2>2, <3>2 DEF OwnerAt
      <3>4. \A born, user : OwnerAtRank(born, user) => OwnerAtRank(born, user)'
        BY <2>2, <3>1, <3>2 DEF OwnerAtRank
      <3> QED
        <4>1. cpc' = cpc /\ plan' = plan /\ was' = was /\ quiet' = quiet
          BY <2>2 DEF compaction
        <4> QED
          BY <3>1, <3>3, <3>4, <4>1 DEF OwnersFollow
    <2> QED
      BY <1>1, <2>1, <2>2 DEF Aside
  <1>2. CASE Plan
    <2>1. Taken' = Taken /\ owner' = owner /\ account' = account
      BY <1>2 DEF Plan, table, Taken
    <2>2. plan' = Mapping' /\ was' = OwnersOf /\ cpc' = "owners"
      BY <1>2, <2>1, MappingStays DEF Plan
    <2>3. \A born \in DOMAIN was' : was'[born] # None /\ OwnerAt(born, was'[born])
      <3>1. \A born \in DOMAIN OwnersOf : /\ OwnersOf[born] # None
                                         /\ \E i \in Taken : account[i].born = born /\ owner[i] = OwnersOf[born]
        BY ByBirth DEF OwnersOf, Numbered
      <3> QED
        BY <2>2, <3>1 DEF OwnerAt
    <2>4. \A born, user : OwnerAt(born, user) => OwnerAt(born, user)'
      BY <2>1 DEF OwnerAt
    <2> QED
      BY <2>2, <2>3, <2>4 DEF OwnersFollow
  <1>3. CASE RemapOwners
    <2>1. CASE Ended
      BY <2>1 DEF Ended, OwnersFollow
    <2>2. CASE owner' = Remapped(plan) /\ cpc' = "rows" /\ UNCHANGED <<plan, was, quiet>>
      <3> SUFFICES ASSUME quiet' PROVE OwnersFollow'
        BY DEF OwnersFollow
      <3>1. cpc = "owners" /\ Taken' = Taken /\ account' = account
        BY <1>3 DEF RemapOwners, table, Taken
      <3>2. plan = Mapping /\ \A born \in DOMAIN was : was[born] # None /\ OwnerAt(born, was[born])
        BY <2>2, <3>1 DEF OwnersFollow
      <3>3. Mapping' = Mapping /\ \A i \in Taken : Rank(i)' = Rank(i)
        BY <3>1, MappingStays
      <3>4. \A born, user : user # None /\ OwnerAt(born, user) => OwnerAtRank(born, user)'
        BY <2>2, <3>1, <3>2, <3>3, RemapForward DEF OwnerAt, OwnerAtRank
      <3> QED
        BY <2>2, <3>2, <3>3, <3>4 DEF OwnersFollow
    <2> QED
      BY <1>3, <2>1, <2>2 DEF RemapOwners
  <1>4. CASE CompactRows \/ Undo
    BY <1>4 DEF CompactRows, Undo, Ended, OwnersFollow
  <1>5. CASE RowsFail
    <2>1. Taken' = Taken /\ owner' = owner /\ account' = account /\ cpc = "rows" /\ cpc' = "undo"
          /\ UNCHANGED <<plan, was, quiet>>
      BY <1>5 DEF RowsFail, table, Taken
    <2>2. Mapping' = Mapping /\ \A i \in Taken : Rank(i)' = Rank(i)
      BY <2>1, MappingStays
    <2>3. \A born, user : OwnerAtRank(born, user) => OwnerAtRank(born, user)'
      BY <2>1, <2>2 DEF OwnerAtRank
    <2> QED
      BY <2>1, <2>2, <2>3 DEF OwnersFollow
  <1> QED
    BY <1>1, <1>2, <1>3, <1>4, <1>5, StepsAside DEF Compaction

\* A compaction that nothing runs into, done or taken back, leaves every owned account
\* its owner (account_compact.go:78), for any accounts and any ownership records of
\* deleted ones.
THEOREM OwnedStayOwnedAlways == Spec => OwnedStayOwned
  <1>1. Init => Numbered /\ OwnersFollow
    <2> SUFFICES ASSUME Init PROVE Numbered /\ OwnersFollow
      OBVIOUS
    <2>1. OwnersFollow
      BY DEF Init, OwnersFollow
    <2>2. PICK taken \in SUBSET IDs : \E who \in [taken -> OpenIDs] :
             account = [i \in IDs |-> IF i \in taken THEN [openid |-> who[i], born |-> i] ELSE NoAccount]
      BY DEF Init
    <2>3. \A i \in Taken : account[i].born = i
      BY <2>2 DEF Taken, NoAccount
    <2> QED
      BY <2>1, <2>3 DEF Numbered
  <1>2. TInv /\ Numbered /\ OwnersFollow /\ [Next]_vars => Numbered' /\ OwnersFollow'
    BY NumberedNext, FollowNext
  <1>3. ASSUME TInv, Numbered, OwnersFollow, [Next]_vars,
               cpc \in {"rows", "undo"}, cpc' = "idle", quiet, <<account, owner>>' # <<account, owner>>
        PROVE  \A born \in DOMAIN was : born \in DOMAIN OwnersOf' /\ OwnersOf'[born] = was[born]
    <2>1. Numbered'
      BY <1>3, NumberedNext
    <2>2. \A i \in Taken' : owner'[i] # None =>
             account'[i].born \in DOMAIN OwnersOf' /\ OwnersOf'[account'[i].born] = owner'[i]
      BY <2>1, ByBirth DEF OwnersOf, Numbered
    <2>3. plan = Mapping /\ \A born \in DOMAIN was : was[born] # None /\ OwnerAtRank(born, was[born])
      BY <1>3 DEF OwnersFollow
    <2>4. CompactRows \/ Undo
      <3>1. ~Plan /\ ~RemapOwners /\ ~RowsFail
        BY <1>3 DEF Plan, RemapOwners, RowsFail
      <3>2. ~Crash
        BY <1>3 DEF Crash, table
      <3>3. cpc' # cpc
        BY <1>3
      <3> QED
        BY <1>3, <3>1, <3>2, <3>3, LinkKeeping
           DEF Next, Compaction, Confirmation, Open, Check, Update, Consume, Exists, Store, ReadOwner, Claim, Rollback,
               DropLink, Delete, Expire, Disturb, compaction, vars
    <2>5. ASSUME NEW born \in DOMAIN was
          PROVE  \E k \in Taken' : account'[k].born = born /\ owner'[k] = was[born]
      <3>1. PICK i \in Taken : account[i].born = born /\ owner[Rank(i)] = was[born]
        BY <2>3, <2>5 DEF OwnerAtRank
      <3>2. CASE CompactRows
        <4>1. Rank(i) \in Taken' /\ account'[Rank(i)] = account[i] /\ owner' = owner
          BY <1>3, <3>2, Renumbered DEF CompactRows
        <4> QED
          BY <3>1, <4>1
      <3>3. CASE Undo
        <4>1. Taken' = Taken /\ account' = account /\ owner' = Remapped(Reversed(plan))
          BY <1>3, <3>3 DEF Undo, table, Taken
        <4>2. owner'[i] = owner[Rank(i)]
          BY <2>3, <2>5, <3>1, <4>1, RemapBack
        <4> QED
          BY <3>1, <4>1, <4>2
      <3> QED
        BY <2>4, <3>2, <3>3
    <2> QED
      BY <2>2, <2>3, <2>5
  <1>4. TInv /\ Numbered /\ OwnersFollow /\ [Next]_vars
        => [(/\ cpc \in {"rows", "undo"} /\ cpc' = "idle" /\ quiet
             /\ <<account, owner>>' # <<account, owner>>)
            => \A born \in DOMAIN was : born \in DOMAIN OwnersOf' /\ OwnersOf'[born] = was[born]]_vars
    BY <1>3
  <1> QED
    BY <1>1, <1>2, <1>4, TypesInit, TypesNext, PTL DEF Spec, OwnedStayOwned
================================================================================
