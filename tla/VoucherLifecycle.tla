--------------------------- MODULE VoucherLifecycle ---------------------------
(***************************************************************************)
(* The life of a voucher and of the radcheck rows by which FreeRADIUS lets *)
(* its holder in (src/apps/vouchers).  Managers create, edit, delete and   *)
(* disable vouchers, the first login activates one, a timer expires those  *)
(* whose time is over, and an operator's command restores missing rows.    *)
(*                                                                         *)
(* Editing and deleting lock the voucher and look at it again.  The other  *)
(* four work on what they read earlier: each is two actions, the reading   *)
(* and the writing transaction.                                            *)
(***************************************************************************)
EXTENDS Naturals

CONSTANTS Vouchers, \* vouchers that may be created
          Names,    \* usernames
          Logins,   \* FreeRADIUS requests that activate a voucher
          Managers, \* requests that disable one
          Duration, \* the time a plan grants, in ticks
          MaxTime,  \* the clock stops here: a bound
          NotSet    \* a column without a value, a process without a task

ASSUME TimeAssumption == Duration \in Nat \ {0} /\ MaxTime \in Nat
ASSUME RequestAssumption == Logins \cap Managers = {}
ASSUME NullAssumption == NotSet \notin Vouchers \cup Names \cup Nat

VARIABLES
  voucher, \* Voucher rows
  rows,    \* Radcheck rows: <<username, the voucher whose password it holds>>
  now,     \* the clock
  held,    \* the voucher each request has fetched
  due,     \* the vouchers the timer has listed, and when
  listed,  \* the vouchers the synchronisation has still to look at
  stale    \* history: vouchers affected by a write on an outdated reading

vars == <<voucher, rows, now, held, due, listed, stale>>

\* sold: it has a payment or an agent's allocation.
Voucher == [status : {"none", "unused", "active", "expired", "disabled", "deleted"},
            name : Names \cup {NotSet}, expires : 0 .. MaxTime \cup {NotSet},
            sold : BOOLEAN]
NoVoucher == [status |-> "none", name |-> NotSet, expires |-> NotSet, sold |-> FALSE]

\* What matters of a fetched row: the status to a login, the username to a manager.
Held == [voucher : Vouchers, seen : {"unused", "active", "expired", "disabled"} \cup Names]

Init == /\ voucher = [v \in Vouchers |-> NoVoucher]
        /\ rows = {}
        /\ now = 0
        /\ held = [c \in Logins \cup Managers |-> NotSet]
        /\ due = NotSet
        /\ listed = {}
        /\ stale = {}

Exists(v) == voucher[v].status \notin {"none", "deleted"}
Free(n) == \A v \in Vouchers : voucher[v].name # n
RowsNamed(names) == {r \in rows : r[1] \in names}

\* Issue a voucher with its credentials: perform_create and generate by managers,
\* generate_vouchers for agents and customers, whose vouchers are sold.
Create(v, n, sold) ==
  /\ voucher[v].status = "none" /\ Free(n)
  /\ voucher' = [voucher EXCEPT ![v] = [NoVoucher EXCEPT !.status = "unused",
                                          !.name = n, !.sold = sold]]
  /\ rows' = rows \cup {<<n, v>>}
  /\ UNCHANGED <<now, held, due, listed, stale>>

\* The condition of perform_update and perform_destroy, under the voucher's lock.
Editable(v) == voucher[v].status = "unused" /\ ~voucher[v].sold

\* Mutant: the rows of the old username stay.
EditKeepsRows(v, n) ==
  /\ Editable(v)
  /\ n # voucher[v].name => Free(n)
  /\ voucher' = [voucher EXCEPT ![v].name = n]
  /\ rows' = rows \cup {<<n, v>>}
  /\ UNCHANGED <<now, held, due, listed, stale>>

\* perform_update, with a new username or the old one.
Edit(v, n) ==
  /\ Editable(v)
  /\ n # voucher[v].name => Free(n)
  /\ voucher' = [voucher EXCEPT ![v].name = n]
  /\ rows' = (rows \ RowsNamed({voucher[v].name})) \cup {<<n, v>>}
  /\ UNCHANGED <<now, held, due, listed, stale>>

\* perform_destroy.
Destroy(v) ==
  /\ Editable(v)
  /\ voucher' = [voucher EXCEPT ![v] = [NoVoucher EXCEPT !.status = "deleted"]]
  /\ rows' = rows \ RowsNamed({voucher[v].name})
  /\ UNCHANGED <<now, held, due, listed, stale>>

\* A request fetches its voucher: get_object, or the login being authorised.
Fetch(c, v) ==
  /\ held[c] = NotSet
  /\ Exists(v)
  /\ held' = [held EXCEPT ![c] =
                [voucher |-> v,
                 seen |-> IF c \in Logins THEN voucher[v].status ELSE voucher[v].name]]
  /\ UNCHANGED <<voucher, rows, now, due, listed, stale>>

Release(c) == held' = [held EXCEPT ![c] = NotSet]

\* activate_voucher looks at the status that was fetched.  A save that finds its
\* row deleted fails.
Activate(c) ==
  LET v == held[c].voucher IN
  /\ held[c] # NotSet
  /\ Release(c)
  /\ IF held[c].seen = "unused" /\ Exists(v)
     THEN /\ now + Duration <= MaxTime
          /\ voucher' = [voucher EXCEPT ![v].status = "active",
                                        ![v].expires = now + Duration]
          /\ stale' = IF voucher[v].status = "unused" THEN stale ELSE stale \cup {v}
     ELSE UNCHANGED <<voucher, stale>>
  /\ UNCHANGED <<rows, now, due, listed>>

\* disable_voucher removes the rows of the username that was fetched: if it has
\* been edited meanwhile, the voucher keeps its rows, and another that has taken
\* the name loses them.
Disable(c) ==
  LET v == held[c].voucher
      n == held[c].seen IN
  /\ held[c] # NotSet
  /\ Release(c)
  /\ IF Exists(v)
     THEN /\ voucher' = [voucher EXCEPT ![v].status = "disabled"]
          /\ rows' = rows \ RowsNamed({n})
          /\ stale' = IF voucher[v].name = n THEN stale
                      ELSE stale \cup {v} \cup {w \in Vouchers : voucher[w].name = n}
     ELSE UNCHANGED <<voucher, rows, stale>>
  /\ UNCHANGED <<now, due, listed>>

\* The clock moves on.
Tick ==
  /\ now < MaxTime
  /\ now' = now + 1
  /\ UNCHANGED <<voucher, rows, held, due, listed, stale>>

OverdueAt(v, time) == voucher[v].status = "active" /\ voucher[v].expires <= time
Overdue(v) == OverdueAt(v, now)
Usable(v) == voucher[v].status \in {"unused", "active"}

\* expire_vouchers: the usernames of the vouchers whose time is over.
ExpireList ==
  /\ due = NotSet
  /\ due' = [at |-> now, vouchers |-> {v \in Vouchers : Overdue(v)}]
  /\ UNCHANGED <<voucher, rows, now, held, listed, stale>>

\* Mutant: only the vouchers that managers generated.
ExpireWriteUnsold ==
  LET over == {v \in Vouchers : OverdueAt(v, due.at) /\ ~voucher[v].sold} IN
  /\ due # NotSet
  /\ due' = NotSet
  /\ voucher' = [v \in Vouchers |-> IF v \in over THEN [voucher[v] EXCEPT !.status = "expired"]
                                   ELSE voucher[v]]
  /\ rows' = rows \ RowsNamed({voucher[v].name : v \in over})
  /\ UNCHANGED <<now, held, listed, stale>>

\* The update filters again, by the time it was listed at, the rows go for all
\* that were listed.
ExpireWrite ==
  LET over == {v \in Vouchers : OverdueAt(v, due.at)} IN
  /\ due # NotSet
  /\ due' = NotSet
  /\ voucher' = [v \in Vouchers |-> IF v \in over THEN [voucher[v] EXCEPT !.status = "expired"]
                                   ELSE voucher[v]]
  /\ rows' = rows \ RowsNamed({voucher[v].name : v \in due.vouchers})
  /\ stale' = stale \cup {v \in due.vouchers \ over : Usable(v)}
  /\ UNCHANGED <<now, held, listed>>

\* sync_vouchers: list the active vouchers.
SyncList ==
  /\ listed = {}
  /\ listed' = {v \in Vouchers : voucher[v].status = "active"}
  /\ UNCHANGED <<voucher, rows, now, held, due, stale>>

\* The next of them: a password row, if the username has none.
SyncOne(v) ==
  LET n == voucher[v].name IN
  /\ v \in listed
  /\ listed' = listed \ {v}
  /\ IF RowsNamed({n}) = {}
     THEN /\ rows' = rows \cup {<<n, v>>}
          /\ stale' = IF Usable(v) THEN stale ELSE stale \cup {v}
     ELSE UNCHANGED <<rows, stale>>
  /\ UNCHANGED <<voucher, now, held, due>>

\* The timer, every five minutes.
Expire == ExpireList \/ ExpireWrite

Next == \/ Tick \/ Expire \/ SyncList
        \/ \E v \in Vouchers : \/ SyncOne(v) \/ Destroy(v)
                               \/ \E n \in Names : Edit(v, n)
                               \/ \E n \in Names, sold \in BOOLEAN : Create(v, n, sold)
                               \/ \E c \in Logins \cup Managers : Fetch(c, v)
        \/ \E c \in Logins : Activate(c)
        \/ \E c \in Managers : Disable(c)

\* systemd starts the maintenance again and again.
Fairness == WF_vars(Expire)

Spec == Init /\ [][Next]_vars /\ Fairness

-----------------------------------------------------------------------------
(* Properties.                                                             *)

\* Every variable has its type; usernames are unique, and a voucher in use has
\* an end.
TypeOK == /\ voucher \in [Vouchers -> Voucher]
          /\ \A v \in Vouchers : /\ Exists(v) <=> voucher[v].name # NotSet
                                 /\ voucher[v].status = "active" => voucher[v].expires # NotSet
          /\ \A v, w \in Vouchers :
               v # w /\ Exists(v) => voucher[v].name # voucher[w].name
          /\ rows \subseteq Names \X Vouchers
          /\ now \in 0 .. MaxTime
          /\ held \in [Logins \cup Managers -> Held \cup {NotSet}]
          /\ due \in [at : 0 .. MaxTime, vouchers : SUBSET Vouchers] \cup {NotSet}
          /\ listed \subseteq Vouchers
          /\ stale \subseteq Vouchers

\* What the code achieves: the rows that open the hotspot are those of the
\* vouchers that are unused or in use, each under its own username, except for
\* vouchers touched by a write on an outdated reading: an activation after a
\* revocation, a disabling under an old username, an expiry or a
\* synchronisation overtaken by the other writes.
AccessFollowsStatusUnlessStale ==
  \A v \in Vouchers \ stale :
    {r \in rows : r[2] = v} = IF Usable(v) THEN {<<voucher[v].name, v>>} ELSE {}

\* A voucher whose time is over is expired by the timer in the end, whatever
\* managers, logins and the synchronisation do meanwhile.
OverdueVouchersExpire == \A v \in Vouchers : Overdue(v) ~> ~Overdue(v)
==============================================================================
