------------------------------ MODULE AccountLinks ------------------------------
(* Account IDs and what refers to them: the account table, the authorization    *)
(* links that point into it, and the ownership records of the other database.   *)
(* A link is made, and its scan confirmed, in several steps with the network    *)
(* and two databases between them, while accounts are deleted, freed IDs are    *)
(* reused, links are revoked, their ID sequence is rewound in two statements    *)
(* and all IDs are renumbered.                                                 *)
EXTENDS Integers, FiniteSetsExt

CONSTANTS Confirms,     \* requests that confirm the scan of a link's QR code
          Makers,       \* requests that make a link
          Cleaners,     \* the purge timer and the requests that revoke a link
          OpenIDs,      \* WeChat identities
          Users,        \* console users an account may belong to
          None,
          MaxID,        \* bound on account IDs
          MaxLinks      \* bound on links created

ASSUME LinksAssumption == /\ None \notin OpenIDs \cup Users
                          /\ Makers \cap (Confirms \cup Cleaners) = {} /\ Confirms \cap Cleaners = {}
                          /\ MaxID \in Nat \ {0} /\ MaxLinks \in Nat

VARIABLES account,      \* wechat_accounts: ID -> identity, plus the ghost born
          owner,        \* account_owners, in the auth database: ID -> user
          link,         \* account_links: ID -> link
          linkSeq,      \* sqlite_sequence of account_links
          tokens,       \* ghost: links created so far; a link's token is its number
          births,       \* ghost: accounts inserted so far
          pc, req,      \* per confirmation: its next step, what it has read
          make,         \* per maker: its next step, what it has read
          reclaim,      \* per process: the rewinding of linkSeq it is in
          cpc, plan, was, quiet         \* the compaction; was, quiet: ghosts

table == <<account, link, linkSeq>>
ghosts == <<tokens, births>>
confirm == <<pc, req>>
making == <<make, reclaim>>
compaction == <<cpc, plan, was, quiet>>
vars == <<table, owner, ghosts, confirm, making, compaction>>

IDs == 1..MaxID
LinkIDs == 1..MaxLinks
Hands == Confirms \cup Makers \cup Cleaners

\* Ghosts: born numbers the account's insertion, home is the birth of the account a
\* link points to when it is inserted.
NoAccount == [openid |-> None, born |-> 0]
NoLink == [token |-> 0, kind |-> "none", account |-> 0, owner |-> None, expected |-> None,
           spent |-> TRUE, home |-> 0]
Link == [token : 1..MaxLinks, kind : {"update", "add"}, account : IDs, owner : Users \cup {None},
         expected : OpenIDs \cup {None}, spent : BOOLEAN, home : 1..births]

\* The link found by the request's token, the scan's identity, and
\* whether the account was there and where it was stored.
NoRequest == [id |-> 0, row |-> NoLink, scan |-> None, existed |-> FALSE, saved |-> 0]

NoMaking == [at |-> "idle", kind |-> "none", account |-> 0, owner |-> None, expected |-> None]
Making == [at : {"owner", "purge", "list", "insert"}, kind : {"update", "add"}, account : IDs,
           owner : Users \cup {None}, expected : OpenIDs \cup {None}]
NoReclaim == [step |-> "none", top |-> 0]

Taken == {i \in IDs : account[i] # NoAccount}
Known(openid) == \E i \in Taken : account[i].openid = openid
Rows == {l \in LinkIDs : link[l] # NoLink}
Active(token) == \E l \in Rows : link[l].token = token /\ ~link[l].spent

Pcs == {"idle", "check", "update", "consume", "exists", "store", "owner", "claim", "rollback", "drop"}

TypeOK == /\ account \in [IDs -> {NoAccount} \cup
                            [openid : OpenIDs, born : 1..births]]
          /\ \A i, j \in Taken : i # j => account[i].openid # account[j].openid
          /\ owner \in [IDs -> Users \cup {None}]
          /\ tokens \in 0..MaxLinks /\ births \in Nat
          /\ link \in [LinkIDs -> Link \cup {NoLink}] /\ \A l \in Rows : l <= tokens
          /\ linkSeq \in 0..tokens
          /\ make \in [Makers -> Making \cup {NoMaking}]
          /\ reclaim \in [Hands -> [step : {"none", "select", "write"}, top : 0..tokens]]
          /\ pc \in [Confirms -> Pcs]
          /\ req \in [Confirms -> [id : 0..MaxLinks, row : Link \cup {NoLink}, scan : OpenIDs \cup {None},
                                   existed : BOOLEAN, saved : 0..MaxID]]
          /\ \A c \in Confirms : (pc[c] = "idle") = (req[c] = NoRequest)
          /\ cpc \in {"idle", "owners", "rows", "undo"} /\ quiet \in BOOLEAN

\* Any accounts with any ownership records, those of deleted accounts included.
Init == /\ \E taken \in SUBSET IDs :
             \E who \in [taken -> OpenIDs] :
                /\ \A i, j \in taken : i # j => who[i] # who[j]
                /\ account = [i \in IDs |-> IF i \in taken THEN [openid |-> who[i], born |-> i]
                                                            ELSE NoAccount]
        /\ owner \in [IDs -> Users \cup {None}]
        /\ link = [l \in LinkIDs |-> NoLink] /\ linkSeq = 0
        /\ tokens = 0 /\ births = MaxID
        /\ pc = [c \in Confirms |-> "idle"] /\ req = [c \in Confirms |-> NoRequest]
        /\ make = [m \in Makers |-> NoMaking] /\ reclaim = [h \in Hands |-> NoReclaim]
        /\ cpc = "idle" /\ plan = << >> /\ was = << >> /\ quiet = TRUE

--------------------------------------------------------------------------------
(* The two tables                                                              *)

\* Deleting an account takes the links that point to it along; its ownership
\* record, in the other database, stays.
RemoveAccount(i) ==
    /\ account' = [account EXCEPT ![i] = NoAccount]
    /\ link' = [l \in LinkIDs |-> IF link[l].account = i THEN NoLink ELSE link[l]]
    /\ UNCHANGED linkSeq

Disturb == quiet' = (cpc = "idle") /\ UNCHANGED <<cpc, plan, was>>

Delete(i) == i \in Taken /\ RemoveAccount(i) /\ Disturb /\ UNCHANGED <<owner, ghosts, confirm, making>>

\* SELECT MAX(id): 0 when there is no link.
Highest(rows) == Max({l \in LinkIDs : rows[l] # NoLink} \cup {0})
\* AUTOINCREMENT: above the sequence and above every link there is.
NextLink == Max({Highest(link), linkSeq}) + 1

\* reclaimAccountLinkSequence: the highest ID left is read, then the sequence set to
\* it, in two statements after the DELETE.  A record that is gone (0) is not updated.
Free(h) == reclaim[h].step = "none"
Due(h) == reclaim' = [reclaim EXCEPT ![h].step = "select"]

SelectMax(h) == /\ reclaim[h].step = "select"
                /\ reclaim' = [reclaim EXCEPT ![h] = [step |-> "write", top |-> Highest(link)]]
                /\ UNCHANGED <<table, owner, ghosts, confirm, make, compaction>>

WriteSeq(h) == /\ reclaim[h].step = "write"
               /\ linkSeq' \in (IF linkSeq = 0 THEN {0} ELSE {}) \cup {reclaim[h].top}
               /\ reclaim' = [reclaim EXCEPT ![h] = NoReclaim]
               /\ UNCHANGED <<account, link, owner, ghosts, confirm, make, compaction>>

\* A statement of it fails: the sequence stays, the error is logged or returned.
ReclaimFails(h) == /\ h \notin Makers /\ ~Free(h)
                   /\ reclaim' = [reclaim EXCEPT ![h] = NoReclaim]
                   /\ UNCHANGED <<table, owner, ghosts, confirm, make, compaction>>

\* PurgeExpiredAccountLinks, on a timer and before a link is made.
Unspent == [l \in LinkIDs |-> IF link[l].spent THEN NoLink ELSE link[l]]
PurgeRows(h) == /\ link' = Unspent
                /\ IF Unspent = link THEN UNCHANGED reclaim ELSE Due(h)
                /\ UNCHANGED <<account, linkSeq>>

Purge(k) == /\ Free(k) /\ Unspent # link /\ PurgeRows(k)
            /\ UNCHANGED <<owner, ghosts, confirm, make, compaction>>

\* RevokeAccountLink, DeleteAccountLink.
Withdraw(h, l) == link' = [link EXCEPT ![l] = NoLink] /\ Due(h) /\ UNCHANGED <<account, linkSeq>>

Revoke(k, l) == /\ Free(k) /\ l \in Rows /\ Withdraw(k, l)
                /\ UNCHANGED <<owner, ghosts, confirm, make, compaction>>

Expire(l) == /\ l \in Rows /\ ~link[l].spent
             /\ link' = [link EXCEPT ![l].spent = TRUE]
             /\ UNCHANGED <<account, linkSeq, owner, ghosts, confirm, making, compaction>>

--------------------------------------------------------------------------------
(* handleAccountLinksAPI, making a link                                        *)

\* The account is looked up; its identity and ID are used to the end.  It is the
\* user's who asks, and the link is theirs, or an administrator asks.
Resolve(m, kind, i) ==
    /\ make[m] = NoMaking /\ i \in Taken /\ tokens < MaxLinks
    /\ \E user \in {None, owner[i]} :
          make' = [make EXCEPT ![m] = [at |-> IF user = None THEN "owner" ELSE "purge", kind |-> kind,
                                       account |-> i, owner |-> user,
                                       expected |-> IF kind = "update" THEN account[i].openid ELSE None]]
    /\ UNCHANGED <<table, owner, ghosts, confirm, reclaim, compaction>>

\* For an administrator, the owner of that ID by now, from the other database; a
\* failing lookup gives the link no owner.
ReadLinkOwner(m) ==
    /\ make[m].at = "owner"
    /\ \E user \in {None, owner[make[m].account]} :
          make' = [make EXCEPT ![m].at = "purge", ![m].owner = user]
    /\ UNCHANGED <<table, owner, ghosts, confirm, reclaim, compaction>>

\* accountLinkMu is held from the purge to the end; accounts, scans and revocations
\* do not take it.
PurgeFirst(m) ==
    /\ make[m].at = "purge" /\ \A n \in Makers : make[n].at \notin {"list", "insert"}
    /\ PurgeRows(m)
    /\ make' = [make EXCEPT ![m].at = "list"]
    /\ UNCHANGED <<owner, ghosts, confirm, compaction>>

\* ListActiveAccountLinksForTarget: for "add" the target is whoever the link is for.
SameTarget(row, r) == /\ ~row.spent /\ row.kind = r.kind
                      /\ r.kind = "update" => row.account = r.account
                      /\ r.owner # None => row.owner = r.owner

List(m) == /\ make[m].at = "list" /\ Free(m)
           /\ ~ \E l \in LinkIDs : SameTarget(link[l], make[m])
           /\ make' = [make EXCEPT ![m].at = "insert"]
           /\ UNCHANGED <<table, owner, ghosts, confirm, reclaim, compaction>>

\* The row only has to name an account that is there, the foreign key's demand.
Insert(m) ==
    /\ make[m].at = "insert" /\ make[m].account \in Taken /\ tokens < MaxLinks
    /\ LET r == make[m]
       IN  link' = [link EXCEPT ![NextLink] =
                      [token |-> tokens + 1, kind |-> r.kind, account |-> r.account, owner |-> r.owner,
                       expected |-> r.expected, spent |-> FALSE, home |-> account[r.account].born]]
    /\ linkSeq' = NextLink /\ tokens' = tokens + 1
    /\ make' = [make EXCEPT ![m] = NoMaking]
    /\ UNCHANGED <<account, owner, births, confirm, reclaim, compaction>>

\* Refused (another user's account, a link of this target, an account that is gone)
\* or failed, at whatever step.
Quit(m) == /\ make[m] # NoMaking
           /\ make' = [make EXCEPT ![m] = NoMaking] /\ reclaim' = [reclaim EXCEPT ![m] = NoReclaim]
           /\ UNCHANGED <<table, owner, ghosts, confirm, compaction>>

--------------------------------------------------------------------------------
(* confirmAccountLinkQR                                                        *)

Goto(c, label) == pc' = [pc EXCEPT ![c] = label] /\ UNCHANGED req
Finish(c) == pc' = [pc EXCEPT ![c] = "idle"] /\ req' = [req EXCEPT ![c] = NoRequest]

\* The request names an active link; its row is read here and used to the end.
Open(c) ==
    /\ pc[c] = "idle" /\ Free(c)
    /\ \E l \in Rows : ~link[l].spent /\ req' = [req EXCEPT ![c].id = l, ![c].row = link[l]]
    /\ pc' = [pc EXCEPT ![c] = "check"]
    /\ UNCHANGED <<table, owner, ghosts, making, compaction>>

Expected(c) == LET row == req[c].row
               IN  account[row.account] # NoAccount /\ account[row.account].openid = row.expected

\* WeChat answers with an identity; then the token is looked up again and, for an
\* update, the account, before its refresh lock is waited for.  An update by an
\* identity other than the expected one is a change of channel the user agreed to.
Check(c) ==
    /\ pc[c] = "check"
    /\ LET row == req[c].row
       IN  \/ \E openid \in OpenIDs :
                 /\ Active(row.token)
                 /\ row.kind = "update" => Expected(c)
                 /\ row.kind = "add" => ~Known(openid)
                 /\ pc' = [pc EXCEPT ![c] = IF row.kind = "update" THEN "update" ELSE "consume"]
                 /\ req' = [req EXCEPT ![c].scan = openid]
           \/ /\ \/ ~Active(row.token)
                 \/ row.kind = "update" /\ (~Expected(c) \/ OpenIDs # {row.expected})
                 \/ row.kind = "add" /\ \E openid \in OpenIDs : Known(openid)
              /\ Finish(c)
    /\ UNCHANGED <<table, owner, ghosts, making, compaction>>

\* Fault: the link is found by its ID alone.
StillLinkedByID(c) == LET row == link[req[c].id] IN ~row.spent /\ row.kind = "update"
\* The row is the one read before, by ID and token, and still points there.
StillLinked(c) == LET row == link[req[c].id]
                  IN  /\ ~row.spent /\ row.kind = "update" /\ row.token = req[c].row.token
                      /\ row.account = req[c].row.account /\ row.expected = req[c].row.expected

\* Fault: another account may have the scan's identity.
UpdateAnyIdentity(c) ==
    /\ pc[c] = "update"
    /\ LET i == req[c].row.account
       IN  \/ /\ StillLinked(c) /\ Expected(c)
              /\ account' = [account EXCEPT ![i].openid = req[c].scan]
              /\ link' = [l \in LinkIDs |-> IF link[l].account = i /\ link[l].kind = "update" THEN NoLink
                                                                                          ELSE link[l]]
              /\ linkSeq' = Highest(link')
           \/ ~(StillLinked(c) /\ Expected(c)) /\ UNCHANGED table
    /\ Finish(c)
    /\ UNCHANGED <<owner, ghosts, making, compaction>>
\* UpdateAccountFromLink: one transaction.
Update(c) ==
    /\ pc[c] = "update"
    /\ LET i == req[c].row.account
       IN  \/ /\ StillLinked(c) /\ Expected(c)
              /\ \A j \in Taken \ {i} : account[j].openid # req[c].scan
              /\ account' = [account EXCEPT ![i].openid = req[c].scan]
              /\ link' = [l \in LinkIDs |-> IF link[l].account = i /\ link[l].kind = "update" THEN NoLink
                                                                                          ELSE link[l]]
              /\ linkSeq' = Highest(link')
           \/ /\ \/ ~StillLinked(c) \/ ~Expected(c)
                 \/ \E j \in Taken \ {i} : account[j].openid = req[c].scan
              /\ UNCHANGED table
    /\ Finish(c)
    /\ UNCHANGED <<owner, ghosts, making, compaction>>

\* Fault: a link is reserved whether or not it was used before.
ConsumeAgain(c) ==
    /\ pc[c] = "consume"
    /\ \/ /\ req[c].id \in Rows
          /\ link' = [link EXCEPT ![req[c].id].spent = TRUE] /\ Goto(c, "exists")
       \/ req[c].id \notin Rows /\ Finish(c) /\ UNCHANGED link
    /\ UNCHANGED <<account, linkSeq, owner, ghosts, making, compaction>>

\* ConsumeAccountLink, by the link's ID.
Consume(c) ==
    /\ pc[c] = "consume"
    /\ \/ /\ req[c].id \in Rows /\ ~link[req[c].id].spent
          /\ link' = [link EXCEPT ![req[c].id].spent = TRUE] /\ Goto(c, "exists")
       \/ link[req[c].id].spent /\ Finish(c) /\ UNCHANGED link
    /\ UNCHANGED <<account, linkSeq, owner, ghosts, making, compaction>>

Exists(c) ==
    /\ pc[c] = "exists"
    /\ req' = [req EXCEPT ![c].existed = Known(req[c].scan)]
    /\ pc' = [pc EXCEPT ![c] = "store"]
    /\ UNCHANGED <<table, owner, ghosts, making, compaction>>

\* UpsertAccount: the identity's row is updated, or the lowest free ID is taken.
Lowest == CHOOSE i \in IDs \ Taken : \A j \in IDs \ Taken : i <= j

Store(c) ==
    /\ pc[c] = "store"
    /\ \/ \E i \in Taken :
             /\ account[i].openid = req[c].scan
             /\ req' = [req EXCEPT ![c].saved = i]
             /\ UNCHANGED <<account, births, compaction>>
       \/ /\ ~Known(req[c].scan) /\ Taken # IDs
          /\ births' = births + 1
          /\ account' = [account EXCEPT ![Lowest] = [openid |-> req[c].scan, born |-> births']]
          /\ req' = [req EXCEPT ![c].saved = Lowest]
          /\ Disturb
    /\ pc' = [pc EXCEPT ![c] = "owner"]
    /\ UNCHANGED <<link, linkSeq, owner, tokens, making>>

GiveUp(c) == IF req[c].existed THEN Finish(c) ELSE Goto(c, "rollback")
\* A new account takes over the proxy of the link's account, which may fail.
Claimed(c) == \/ Goto(c, "drop")
              \/ ~req[c].existed /\ Goto(c, "rollback")

\* claimLinkAccount reads the owner, then inserts a record unless there is one.
ReadOwner(c) ==
    /\ pc[c] = "owner"
    /\ LET user == req[c].row.owner
       IN  \/ user = None /\ Claimed(c)
           \/ user # None /\ owner[req[c].saved] \in {None, user} /\ Goto(c, "claim")
           \/ user # None /\ owner[req[c].saved] \notin {None, user} /\ GiveUp(c)
    /\ UNCHANGED <<table, owner, ghosts, making, compaction>>

Claim(c) ==
    /\ pc[c] = "claim"
    /\ \/ /\ owner' = [owner EXCEPT ![req[c].saved] = IF @ = None THEN req[c].row.owner ELSE @]
          /\ Claimed(c)
       \/ UNCHANGED owner /\ GiveUp(c)
    /\ Disturb
    /\ UNCHANGED <<table, ghosts, making>>

Rollback(c) ==
    /\ pc[c] = "rollback"
    /\ IF req[c].saved \in Taken THEN RemoveAccount(req[c].saved) ELSE UNCHANGED table
    /\ Disturb
    /\ Finish(c)
    /\ UNCHANGED <<owner, ghosts, making>>

\* DeleteAccountLink, by the link's ID and the owner of the link read at first.
DropLink(c) ==
    /\ pc[c] = "drop"
    /\ LET l == req[c].id
       IN  \/ l \in Rows /\ req[c].row.owner \in {None, link[l].owner} /\ Withdraw(c, l)
           \/ /\ l \notin Rows \/ req[c].row.owner \notin {None, link[l].owner}
              /\ UNCHANGED <<table, reclaim>>
    /\ Finish(c)
    /\ UNCHANGED <<owner, ghosts, make, compaction>>

--------------------------------------------------------------------------------
(* handleAccountCompact: the ownership records move first, in their database,   *)
(* then the accounts and everything that points to them.                       *)

Rank(i) == Cardinality({j \in Taken : j <= i})
Moved == {i \in Taken : Rank(i) # i}
Mapping == [i \in Moved |-> Rank(i)]
Reversed(m) == [k \in {m[i] : i \in DOMAIN m} |-> CHOOSE i \in DOMAIN m : m[i] = k]

\* RemapAccountIDs: out of the way first, then to the new IDs.  A record that is
\* already at one of them breaks the key, and nothing is moved.
Collides(m) == \E i \in DOMAIN m : owner[i] # None /\ m[i] \notin DOMAIN m /\ owner[m[i]] # None

\* Fault: the old IDs are cleared after the new ones were written.
RemappedInPlace(m) == [i \in IDs |-> IF i \in DOMAIN m THEN None ELSE
                                     IF \E j \in DOMAIN m : m[j] = i THEN owner[CHOOSE j \in DOMAIN m : m[j] = i]
                                     ELSE owner[i]]
Remapped(m) == [i \in IDs |-> IF \E j \in DOMAIN m : m[j] = i /\ owner[j] # None
                              THEN owner[CHOOSE j \in DOMAIN m : m[j] = i]
                              ELSE IF i \in DOMAIN m THEN None ELSE owner[i]]

OwnersOf == [born \in {account[i].born : i \in {j \in Taken : owner[j] # None}} |->
                owner[CHOOSE i \in Taken : account[i].born = born]]

Plan == /\ cpc = "idle" /\ Moved # {}
        /\ plan' = Mapping /\ cpc' = "owners"
        /\ was' = OwnersOf /\ quiet' = TRUE
        /\ UNCHANGED <<table, owner, ghosts, confirm, making>>

Ended == cpc' = "idle" /\ plan' = << >> /\ was' = << >> /\ quiet' = TRUE

RemapOwners == /\ cpc = "owners"
               /\ \/ ~Collides(plan) /\ owner' = Remapped(plan) /\ cpc' = "rows" /\ UNCHANGED <<plan, was, quiet>>
                  \/ Ended /\ UNCHANGED owner
               /\ UNCHANGED <<table, ghosts, confirm, making>>

\* Fault: the links are left where they point.
MovedLinkForgotten(row) == row
MovedLink(row) == IF row.account \in Moved THEN [row EXCEPT !.account = Rank(row.account)] ELSE row

\* CompactAccountIDs: one transaction, over the accounts there are now.
CompactRows ==
    /\ cpc = "rows"
    /\ account' = [k \in IDs |-> IF \E i \in Taken : Rank(i) = k THEN account[CHOOSE i \in Taken : Rank(i) = k]
                                                                ELSE NoAccount]
    /\ link' = [l \in LinkIDs |-> MovedLink(link[l])]
    /\ Ended
    /\ UNCHANGED <<linkSeq, owner, ghosts, confirm, making>>

RowsFail == /\ cpc = "rows" /\ cpc' = "undo"
            /\ UNCHANGED <<table, owner, ghosts, confirm, making, plan, was, quiet>>

\* The ownership goes back, unless that fails too: its error is dropped.
Undo == /\ cpc = "undo"
        /\ \/ ~Collides(Reversed(plan)) /\ owner' = Remapped(Reversed(plan))
           \/ UNCHANGED owner
        /\ Ended
        /\ UNCHANGED <<table, ghosts, confirm, making>>

Crash == /\ \/ cpc # "idle" \/ \E c \in Confirms : pc[c] # "idle"
            \/ \E m \in Makers : make[m] # NoMaking
            \/ \E h \in Hands : ~Free(h)
         /\ pc' = [c \in Confirms |-> "idle"] /\ req' = [c \in Confirms |-> NoRequest]
         /\ make' = [m \in Makers |-> NoMaking] /\ reclaim' = [h \in Hands |-> NoReclaim]
         /\ Ended
         /\ UNCHANGED <<table, owner, ghosts>>

Confirmation(c) == \/ Open(c) \/ Check(c) \/ Update(c)
                   \/ Consume(c) \/ Exists(c) \/ Store(c) \/ ReadOwner(c) \/ Claim(c)
                   \/ Rollback(c) \/ DropLink(c)
Creation(m) == \/ \E i \in IDs : Resolve(m, "update", i) \/ Resolve(m, "add", i)
               \/ ReadLinkOwner(m) \/ PurgeFirst(m) \/ List(m) \/ Insert(m) \/ Quit(m)
Cleaning(k) == Purge(k) \/ \E l \in LinkIDs : Revoke(k, l)
Reclaiming(h) == SelectMax(h) \/ WriteSeq(h) \/ ReclaimFails(h)
Compaction == Plan \/ RemapOwners \/ CompactRows \/ RowsFail \/ Undo

Next == \/ \E c \in Confirms : Confirmation(c)
        \/ \E m \in Makers : Creation(m)
        \/ \E k \in Cleaners : Cleaning(k)
        \/ \E h \in Hands : Reclaiming(h)
        \/ Compaction
        \/ \E i \in IDs : Delete(i)
        \/ \E l \in LinkIDs : Expire(l)
        \/ Crash

Spec == Init /\ [][Next]_vars

--------------------------------------------------------------------------------
\* From its insertion on, a link points at one and the same account: deleting accounts
\* and giving their IDs to others, and renumbering all of them, never lets it slide
\* to another (store.go:719-768, the ON DELETE CASCADE of store.go:114).  It need not
\* be the account the request had looked up: that one can be deleted, and its ID
\* given to another, or be renumbered, between account_links.go:171 and :248.
LinksPointHome == \A l \in Rows : account[link[l].account].born = link[l].home

\* A scan through an update link replaces the authorization of the account its
\* link was made for, while that account has the identity the link names and the
\* link with this very token is unused: although the link was read before WeChat
\* answered, and link and account IDs are reused (account_rebind.go:40-43).
UpdatesItsOwnAccount ==
    [][\A c \in Confirms :
         (pc[c] = "update" /\ pc'[c] = "idle" /\ table' # table) =>
            /\ Active(req[c].row.token)
            /\ account[req[c].row.account].born = req[c].row.home
            /\ account[req[c].row.account].openid = req[c].row.expected]_vars

\* No more accounts are added than links were made, whoever confirms them at the
\* same time and whatever becomes of the links meanwhile (account_links.go:100).
AddsWithinLinks == births - MaxID <= tokens

\* A compaction that nothing else runs into, done or taken back, leaves every
\* owned account with its owner, ownership records of deleted accounts and all
\* (account_compact.go:78: "so the two stores stay aligned").
OwnedStayOwned ==
    [][(/\ cpc \in {"rows", "undo"} /\ cpc' = "idle" /\ quiet
        /\ <<account, owner>>' # <<account, owner>>)
       => \A born \in DOMAIN was : born \in DOMAIN OwnersOf' /\ OwnersOf'[born] = was[born]]_vars
================================================================================
