------------------------------- MODULE Users -------------------------------
(***************************************************************************)
(* Accounts and their addresses: src/src/services/user.service.ts, with    *)
(* the addresses an order leaves (order.service.ts).  An account is        *)
(* inserted by one transaction and its two addresses by another; a change  *)
(* of an address reads it, looks for another default address of the type,  *)
(* saves that one as no default and then saves its own, each a transaction *)
(* of its own, and each save() writes what differs from the copy it holds. *)
(*                                                                         *)
(* Column defaults matter: the address of a registration and that of an    *)
(* order are a default unless the body says otherwise, one that is added   *)
(* later is not.  Foreign keys and the unique index on the email are those *)
(* of the entities.  Names, phones and streets are left out, and so is the *)
(* password (bcrypt, and the mail that carries a generated one: a mail     *)
(* that fails is logged and changes nothing).                              *)
(***************************************************************************)
EXTENDS Integers, FiniteSetsExt

CONSTANTS
  Requests,   \* HTTP requests in flight at once
  Accounts,   \* bound: accounts at once; an id of an account, a uuid
  Emails,
  MaxSlots,   \* bound: addresses at once; an address_id is a number up to it
  Nobody      \* the owner of an address that does not exist, no account, no address

ASSUME UsersAssumption ==
  /\ Nobody \notin Accounts \cup Emails
  /\ MaxSlots \in Nat

VARIABLES
  email,     \* email[u]: the email of account u, Nobody if there is none
  address,   \* address[a]: the row of address a
  job,       \* job[r]: where request r is and what it holds
  muddled    \* history: accounts whose defaults may be none or several

vars == <<email, address, job, muddled>>

-----------------------------------------------------------------------------
Slots == 1 .. MaxSlots
Types == {"billing", "delivery"}

None == 0

\* own is is_user_address: FALSE for the address of an order.
Address == [owner: Accounts \cup {Nobody}, own: BOOLEAN, type: Types,
            default: BOOLEAN]
NoAddress == [owner |-> Nobody, own |-> FALSE, type |-> "billing", default |-> FALSE]

(* Where a request is:                                                     *)
(*   insert     a registration has found the email free and hashes         *)
(*   addresses  the account is there, its addresses come next              *)
(*   search     a change has read its address and makes it the default,    *)
(*              the search comes next                                      *)
(*   clear      save() of the other default comes next                     *)
(*   save       save() of the address comes next                           *)
(* saved is what the columns of the address become, other the other        *)
(* default that was found, makes: the body makes it the default.           *)
Job == [pc: {"idle", "insert", "addresses", "search", "clear", "save"},
        user: Accounts \cup {Nobody}, email: Emails \cup {Nobody},
        address: Slots \cup {None}, other: Slots \cup {None},
        saved: [type: Types, default: BOOLEAN], makes: BOOLEAN]

Idle == [pc |-> "idle", user |-> Nobody, email |-> Nobody, address |-> None,
         other |-> None, saved |-> [type |-> "billing", default |-> FALSE],
         makes |-> FALSE]

At(r, step) == job[r].pc = step
Become(r, state) == job' = [job EXCEPT ![r] = state]
Finish(r) == Become(r, Idle)

Exists(u) == u \in Accounts /\ email[u] # Nobody
Taken(e) == \E u \in Accounts : email[u] = e

\* Ids that are like no id in use: of accounts, and of addresses, where the
\* least one stands for the next of the sequence.
NewAccounts == {u \in Accounts : ~Exists(u) /\ \A r \in Requests : job[r].user # u}
NewSlots == {a \in Slots : /\ address[a].owner = Nobody
                           /\ \A r \in Requests : a \notin {job[r].address, job[r].other}}

\* The default addresses of u of type t.
Defaults(u, t) ==
  {a \in Slots : /\ address[a].owner = u /\ address[a].own
                 /\ address[a].type = t /\ address[a].default}

Init ==
  /\ email = [u \in Accounts |-> Nobody]
  /\ address = [a \in Slots |-> NoAddress]
  /\ job = [r \in Requests |-> Idle]
  /\ muddled = {}

-----------------------------------------------------------------------------
(* Accounts                                                                *)

\* create and createUserFromAdmin: the email is free, the password is hashed.
Register(r, e) ==
  /\ At(r, "idle") /\ ~Taken(e)
  /\ Become(r, [Idle EXCEPT !.pc = "insert", !.email = e])
  /\ UNCHANGED <<email, address, muddled>>

\* Mutant: the column has no unique index.
NotIndexed(e) == TRUE
\* The unique index on the email lets e in.
Unique(e) == ~Taken(e)

InsertUser(r) ==
  /\ At(r, "insert") /\ Unique(job[r].email)
  /\ \E u \in NewAccounts :
       /\ email' = [email EXCEPT ![u] = job[r].email]
       /\ Become(r, [Idle EXCEPT !.pc = "addresses", !.user = u])
  /\ UNCHANGED <<address, muddled>>

\* One billing and one delivery address, of the account if it is still there.
InsertAddresses(r) ==
  /\ At(r, "addresses") /\ Exists(job[r].user)
  /\ Cardinality(NewSlots) >= 2
  /\ LET new(t) == [owner |-> job[r].user, own |-> TRUE, type |-> t, default |-> TRUE]
         a == Min(NewSlots)
     IN  address' = [address EXCEPT ![a] = new("billing"),
                                    ![Min(NewSlots \ {a})] = new("delivery")]
  /\ Finish(r)
  /\ UNCHANGED <<email, muddled>>

\* update does not look for the email: the index does.
UpdateDetails(u, e) ==
  /\ Exists(u) /\ e # email[u] /\ Unique(e)
  /\ email' = [email EXCEPT ![u] = e]
  /\ UNCHANGED <<address, job, muddled>>

\* onDelete CASCADE: the addresses of the account go with it.
Cascaded(u) == [a \in Slots |-> IF address[a].owner = u THEN NoAddress ELSE address[a]]

(* remove: the addresses go with the account.  An order of the account     *)
(* forbids it; orders are not kept here, and may have been removed before, *)
(* which leaves their addresses.                                           *)
Remove(u) ==
  /\ Exists(u)
  /\ email' = [email EXCEPT ![u] = Nobody]
  /\ address' = Cascaded(u)
  /\ muddled' = muddled \ {u}
  /\ UNCHANGED job

-----------------------------------------------------------------------------
(* Addresses that are added, and those of orders                           *)

\* Mutant: the column's own default is left.
AddedByColumn == TRUE
\* What addAddressToUser says of the default, whatever the body says.
AddedDefault == FALSE

AddAddress(u, t) ==
  /\ Exists(u)
  /\ NewSlots # {}
  /\ address' = [address EXCEPT ![Min(NewSlots)] =
                   [owner |-> u, own |-> TRUE, type |-> t, default |-> AddedDefault]]
  /\ UNCHANGED <<email, job, muddled>>

(* An address of an order of the account.  The order of a guest leaves one *)
(* without an owner, which a search may take like that of another account's*)
(* order.                                                                  *)
PlaceOrder(u, t, default) ==
  /\ Exists(u)
  /\ NewSlots # {}
  /\ address' = [address EXCEPT ![Min(NewSlots)] =
                   [owner |-> u, own |-> FALSE, type |-> t, default |-> default]]
  /\ UNCHANGED <<email, job, muddled>>

-----------------------------------------------------------------------------
(* updateUserDetails                                                       *)

\* The owners of the addresses a change writes.
Owner(a) == IF a = None THEN Nobody ELSE address[a].owner
Touched(r) == {job[r].user, Owner(job[r].other)} \cap Accounts
Meets(r, u) == \E q \in Requests \ {r} : u \in Touched(q)

(* The account and the address are read, the address is of the account,    *)
(* and the body is laid over it: it always has a type, and makes it the    *)
(* default, makes it none or says nothing of it.  What the search finds is *)
(* of no use to a body that does not make it the default.  The account is  *)
(* left without a default if it gives up its own or changes its type.      *)
ChangeReads(r, u, a, t, d) ==
  /\ At(r, "idle") /\ Exists(u) /\ address[a].owner = u
  /\ LET default == IF d = "unset" THEN address[a].default ELSE d = "yes"
         left == address[a].own /\ address[a].default /\ ~(default /\ t = address[a].type)
     IN  /\ Become(r, [Idle EXCEPT !.user = u, !.address = a, !.makes = d = "yes",
                                   !.pc = IF d = "yes" THEN "search" ELSE "save",
                                   !.saved = [type |-> t, default |-> default]])
         /\ muddled' = IF left \/ Meets(r, u) THEN muddled \cup {u} ELSE muddled
  /\ UNCHANGED <<email, address>>

\* The defaults that findOne may return: of the type, and of any owner.
Found(r) ==
  {b \in Slots \ {job[r].address} :
     /\ address[b].owner # Nobody /\ address[b].default
     /\ address[b].type = job[r].saved.type}

(* Whose defaults the search muddles when it takes b: the account's own    *)
(* when it has another one, or has none for the address of an order that   *)
(* is changed; the owner of b when that is another account, or is in the   *)
(* hands of another change.                                                *)
Muddles(r, b) ==
  LET a == job[r].address  u == job[r].user
      missed == ~(Defaults(u, job[r].saved.type) \subseteq {a, b})
      robbed == address[b].own /\ (Owner(b) # u \/ ~address[a].own)
  IN  (IF missed THEN {u} ELSE {})
        \cup {v \in {Owner(b)} \cap Accounts : robbed \/ Meets(r, v)}

\* The search, which takes one of them, or none if there is none.
Search(r) ==
  /\ At(r, "search")
  /\ \/ \E b \in Found(r) :
          /\ Become(r, [job[r] EXCEPT !.pc = "clear", !.other = b])
          /\ muddled' = muddled \cup Muddles(r, b)
     \/ /\ Found(r) = {}
        /\ Become(r, [job[r] EXCEPT !.pc = "save"])
        /\ UNCHANGED muddled
  /\ UNCHANGED <<email, address>>

(* save() reads the row and writes the columns that differ: what it is to  *)
(* become, whoever has changed it.  A row that is gone is inserted again,  *)
(* which fails for lack of its account (Breaks).  The SELECT and the       *)
(* UPDATE of one save() are one step.                                      *)
Saved(a, saved) ==
  /\ address[a].owner # Nobody
  /\ address' = [address EXCEPT ![a].type = saved.type, ![a].default = saved.default]

\* The other default, as it was found but for the default.
Clear(r) ==
  /\ At(r, "clear")
  /\ Saved(job[r].other, [type |-> job[r].saved.type, default |-> FALSE])
  /\ Become(r, [job[r] EXCEPT !.pc = "save", !.other = None])
  /\ UNCHANGED <<email, muddled>>

ChangeSaves(r) ==
  /\ At(r, "save")
  /\ Saved(job[r].address, job[r].saved)
  /\ Finish(r)
  /\ UNCHANGED <<email, muddled>>

-----------------------------------------------------------------------------
(* Any step may be the last: the email is taken by now, a foreign key      *)
(* fails, the connection is lost, the process dies.  What the request has  *)
(* committed stays: an account without addresses, an old default cleared.  *)
Breaks(r) ==
  /\ ~At(r, "idle")
  /\ muddled' = IF Exists(job[r].user) /\ (At(r, "addresses") \/ (At(r, "save") /\ job[r].makes))
                THEN muddled \cup {job[r].user} ELSE muddled
  /\ Finish(r)
  /\ UNCHANGED <<email, address>>

Next ==
  \/ \E r \in Requests :
       \/ \E e \in Emails : Register(r, e)
       \/ InsertUser(r) \/ InsertAddresses(r)
       \/ \E u \in Accounts, a \in Slots, t \in Types, d \in {"yes", "no", "unset"} :
            ChangeReads(r, u, a, t, d)
       \/ Search(r) \/ Clear(r) \/ ChangeSaves(r) \/ Breaks(r)
  \/ \E u \in Accounts :
       \/ \E e \in Emails : UpdateDetails(u, e)
       \/ Remove(u)
       \/ \E t \in Types : AddAddress(u, t) \/ \E d \in BOOLEAN : PlaceOrder(u, t, d)

Spec == Init /\ [][Next]_vars

-----------------------------------------------------------------------------
(* Properties                                                              *)

\* The types, and no address outlives its account.
TypeOK ==
  /\ email \in [Accounts -> Emails \cup {Nobody}]
  /\ address \in [Slots -> Address]
  /\ \A a \in Slots : address[a].owner # Nobody => Exists(address[a].owner)
  /\ job \in [Requests -> Job]
  /\ muddled \subseteq Accounts

(* Two registrations that have both found the email free, or a change of   *)
(* details, do not give two accounts one email.                            *)
OneAccountPerEmail ==
  \A u, v \in Accounts : Exists(u) /\ email[u] = email[v] => u = v

(* An account that is registered has exactly one default address of either *)
(* type, unless its owner gave it up or turned it into one of the other    *)
(* type, two changes met, a request broke off between two transactions, or *)
(* a search took one of several defaults: that of an order or of another   *)
(* account, which loses it, while the account's own stays.                 *)
OneDefaultPerType ==
  \A u \in Accounts \ muddled :
    /\ Exists(u)
    /\ \A r \in Requests : job[r].user # u \/ At(r, "search")
    => \A t \in Types : Cardinality(Defaults(u, t)) = 1
=============================================================================
