------------------------ MODULE VoucherLifecycle_proofs ------------------------
(***************************************************************************)
(* Proofs about VoucherLifecycle, for any number of vouchers, usernames,   *)
(* requests and any length of time.                                        *)
(*                                                                         *)
(* That access follows the status is inductive but for two facts about the *)
(* processes that work on earlier readings: the timer has listed all that  *)
(* it will find overdue (DueInv), because a voucher activated meanwhile    *)
(* ends later; and what the synchronisation still has to look at is never  *)
(* deleted (ListedInv), because a voucher once in use is not editable.     *)
(***************************************************************************)
EXTENDS VoucherLifecycle, TLAPS

VoucherOK ==
  /\ voucher \in [Vouchers -> Voucher]
  /\ \A v \in Vouchers : /\ Exists(v) <=> voucher[v].name # NotSet
                         /\ voucher[v].status = "active" => voucher[v].expires # NotSet
  /\ \A v, w \in Vouchers : v # w /\ Exists(v) => voucher[v].name # voucher[w].name

\* A row opens the hotspot exactly for the vouchers that are unused or in use.
RowInv == \A n \in Names, v \in Vouchers \ stale :
            <<n, v>> \in rows <=> Usable(v) /\ n = voucher[v].name

DueInv == due # NotSet => /\ due.at <= now
                          /\ \A v \in Vouchers : OverdueAt(v, due.at) => v \in due.vouchers

ListedInv == \A v \in listed : voucher[v].status \in {"active", "expired", "disabled"}

IInv == TypeOK /\ RowInv /\ DueInv /\ ListedInv

-----------------------------------------------------------------------------
(* Rows.                                                                   *)

LEMMA VoucherPart == TypeOK => VoucherOK
BY DEF TypeOK, VoucherOK

LEMMA InRowsNamed ==
  ASSUME TypeOK, NEW names, NEW n \in Names, NEW v \in Vouchers
  PROVE  <<n, v>> \in RowsNamed(names) <=> <<n, v>> \in rows /\ n \in names
BY DEF RowsNamed

\* A voucher's row replaced by one that may stand in its place.
LEMMA SetVoucher ==
  ASSUME TypeOK, NEW v \in Vouchers, NEW row \in Voucher,
         voucher' = [voucher EXCEPT ![v] = row],
         row.name # NotSet <=> row.status \notin {"none", "deleted"},
         row.status = "active" => row.expires # NotSet,
         row.name # NotSet => \A w \in Vouchers \ {v} : voucher[w].name # row.name
  PROVE  /\ VoucherOK'
         /\ voucher'[v] = row
         /\ \A w \in Vouchers \ {v} : voucher'[w] = voucher[w]
<1>1. /\ voucher \in [Vouchers -> Voucher]
      /\ \A w \in Vouchers : /\ Exists(w) <=> voucher[w].name # NotSet
                             /\ voucher[w].status = "active" => voucher[w].expires # NotSet
      /\ \A u, w \in Vouchers : u # w /\ Exists(u) => voucher[u].name # voucher[w].name
  BY DEF TypeOK
<1>2. /\ voucher' \in [Vouchers -> Voucher] /\ voucher'[v] = row
      /\ \A w \in Vouchers \ {v} : voucher'[w] = voucher[w]
  BY <1>1
<1>3. \A w \in Vouchers : /\ Exists(w)' <=> voucher'[w].name # NotSet
                          /\ voucher'[w].status = "active" => voucher'[w].expires # NotSet
  BY <1>1, <1>2 DEF Exists
<1>4. \A u, w \in Vouchers : u # w /\ Exists(u)' => voucher'[u].name # voucher'[w].name
  BY <1>1, <1>2, <1>3 DEF Exists
<1> QED
  BY <1>2, <1>3, <1>4 DEF VoucherOK

\* Neither the timer nor the synchronisation is disturbed by a new status of one
\* voucher, unless it is activated or deleted.
LEMMA ReadingsKept ==
  ASSUME IInv, NEW v \in Vouchers, NEW row \in Voucher, voucher'[v] = row,
         \A w \in Vouchers \ {v} : voucher'[w] = voucher[w],
         UNCHANGED <<now, due, listed>>,
         row.status = "active" => row.expires \in Nat /\ row.expires > now,
         voucher[v].status \in {"active", "expired", "disabled"} =>
           row.status \in {"active", "expired", "disabled"}
  PROVE  DueInv' /\ ListedInv'
<1>1. /\ now \in Nat /\ listed \subseteq Vouchers
      /\ due # NotSet => due.at \in Nat
  BY DEF IInv, TypeOK
<1>2. DueInv'
  <2> SUFFICES ASSUME due # NotSet
               PROVE  /\ due.at <= now
                      /\ \A w \in Vouchers : OverdueAt(w, due.at)' => w \in due.vouchers
    BY DEF DueInv
  <2>1. due.at <= now /\ \A w \in Vouchers : OverdueAt(w, due.at) => w \in due.vouchers
    BY DEF IInv, DueInv
  <2>2. ASSUME NEW w \in Vouchers \ {v}, OverdueAt(w, due.at)' PROVE w \in due.vouchers
    BY <2>1, <2>2 DEF OverdueAt
  <2>3. ASSUME OverdueAt(v, due.at)' PROVE FALSE
    <3>1. row.status = "active" /\ row.expires <= due.at
      BY <2>3 DEF OverdueAt
    <3> QED
      BY <1>1, <2>1, <3>1
  <2> QED
    BY <2>1, <2>2, <2>3
<1>3. ListedInv'
  BY <1>1 DEF IInv, ListedInv
<1> QED
  BY <1>2, <1>3

LEMMA InvInit == Init => IInv
<1> SUFFICES ASSUME Init PROVE IInv
  OBVIOUS
<1>1. /\ \A v \in Vouchers : voucher[v] = NoVoucher
      /\ voucher = [v \in Vouchers |-> NoVoucher]
      /\ rows = {} /\ now = 0 /\ due = NotSet /\ listed = {} /\ stale = {}
      /\ held = [c \in Logins \cup Managers |-> NotSet]
  BY DEF Init
<1>2. /\ NoVoucher \in Voucher /\ NoVoucher.status = "none" /\ NoVoucher.name = NotSet
  BY DEF NoVoucher, Voucher
<1>3. TypeOK
  BY <1>1, <1>2, TimeAssumption DEF TypeOK, Exists
<1>4. RowInv /\ DueInv /\ ListedInv
  BY <1>1, <1>2 DEF RowInv, DueInv, ListedInv, Usable
<1> QED
  BY <1>3, <1>4 DEF IInv

-----------------------------------------------------------------------------
(* The requests.                                                           *)

LEMMA CreateStep ==
  ASSUME IInv, NEW v \in Vouchers, NEW n \in Names, NEW sold \in BOOLEAN, Create(v, n, sold)
  PROVE  IInv'
<1> DEFINE row == [NoVoucher EXCEPT !.status = "unused", !.name = n, !.sold = sold]
<1>1. /\ TypeOK /\ voucher[v].status = "none" /\ \A w \in Vouchers : voucher[w].name # n
      /\ voucher' = [voucher EXCEPT ![v] = row] /\ rows' = rows \cup {<<n, v>>}
      /\ UNCHANGED <<now, held, due, listed, stale>>
  BY DEF Create, Free, IInv
<1>2. row \in Voucher /\ row.status = "unused" /\ row.name = n /\ n # NotSet
  BY NullAssumption DEF NoVoucher, Voucher
<1> HIDE DEF row
<1>3. VoucherOK' /\ voucher'[v] = row /\ \A w \in Vouchers \ {v} : voucher'[w] = voucher[w]
  BY <1>1, <1>2, SetVoucher
<1>4. TypeOK'
  BY <1>1, <1>3 DEF TypeOK, VoucherOK
<1>5. DueInv' /\ ListedInv'
  BY <1>1, <1>2, <1>3, ReadingsKept
<1>6. RowInv'
  <2> SUFFICES ASSUME NEW m \in Names, NEW w \in Vouchers \ stale
               PROVE  <<m, w>> \in rows' <=> Usable(w)' /\ m = voucher'[w].name
    BY <1>1 DEF RowInv
  <2>1. <<m, w>> \in rows <=> Usable(w) /\ m = voucher[w].name
    BY DEF IInv, RowInv
  <2>2. <<m, w>> \in rows' <=> <<m, w>> \in rows \/ (m = n /\ w = v)
    BY <1>1
  <2>3. CASE w = v
    BY <1>1, <1>2, <1>3, <2>1, <2>2, <2>3 DEF Usable
  <2>4. CASE w # v
    BY <1>3, <2>1, <2>2, <2>4 DEF Usable
  <2> QED
    BY <2>3, <2>4
<1> QED
  BY <1>4, <1>5, <1>6 DEF IInv

LEMMA EditStep ==
  ASSUME IInv, NEW v \in Vouchers, NEW n \in Names, Edit(v, n)
  PROVE  IInv'
<1> DEFINE row == [voucher[v] EXCEPT !.name = n]
<1>1. PICK old : old = voucher[v].name
  OBVIOUS
<1>2. /\ TypeOK /\ VoucherOK /\ voucher[v].status = "unused"
      /\ n # old => \A w \in Vouchers : voucher[w].name # n
      /\ voucher' = [voucher EXCEPT ![v] = row]
      /\ rows' = (rows \ RowsNamed({old})) \cup {<<n, v>>}
      /\ UNCHANGED <<now, held, due, listed, stale>>
  BY <1>1, VoucherPart DEF Edit, Editable, Free, IInv
<1>3. row \in Voucher /\ row.status = "unused" /\ row.name = n /\ n # NotSet
  BY <1>2, NullAssumption DEF VoucherOK, Voucher
<1> HIDE DEF row
<1>4. /\ old # NotSet
      /\ \A w \in Vouchers \ {v} : voucher[w].name # old /\ voucher[w].name # n
  BY <1>1, <1>2 DEF VoucherOK, Exists
<1>5. VoucherOK' /\ voucher'[v] = row /\ \A w \in Vouchers \ {v} : voucher'[w] = voucher[w]
  BY <1>2, <1>3, <1>4, SetVoucher
<1>6. rows' \subseteq Names \X Vouchers
  BY <1>2 DEF TypeOK, RowsNamed
<1>7. TypeOK'
  BY <1>2, <1>5, <1>6 DEF TypeOK, VoucherOK
<1>8. DueInv' /\ ListedInv'
  BY <1>2, <1>3, <1>5, ReadingsKept
<1>9. \A m \in Names, w \in Vouchers :
        <<m, w>> \in rows' <=> (<<m, w>> \in rows /\ m # old) \/ (m = n /\ w = v)
  BY <1>2, InRowsNamed
<1>10. RowInv'
  <2> SUFFICES ASSUME NEW m \in Names, NEW w \in Vouchers \ stale
               PROVE  <<m, w>> \in rows' <=> Usable(w)' /\ m = voucher'[w].name
    BY <1>2 DEF RowInv
  <2>1. <<m, w>> \in rows <=> Usable(w) /\ m = voucher[w].name
    BY DEF IInv, RowInv
  <2>2. CASE w = v
    BY <1>1, <1>2, <1>3, <1>5, <1>9, <2>1, <2>2 DEF Usable
  <2>3. CASE w # v
    BY <1>4, <1>5, <1>9, <2>1, <2>3 DEF Usable
  <2> QED
    BY <2>2, <2>3
<1> QED
  BY <1>7, <1>8, <1>10 DEF IInv

LEMMA DestroyStep ==
  ASSUME IInv, NEW v \in Vouchers, Destroy(v)
  PROVE  IInv'
<1> DEFINE row == [NoVoucher EXCEPT !.status = "deleted"]
<1>1. PICK old : old = voucher[v].name
  OBVIOUS
<1>2. /\ TypeOK /\ VoucherOK /\ voucher[v].status = "unused"
      /\ voucher' = [voucher EXCEPT ![v] = row]
      /\ rows' = rows \ RowsNamed({old})
      /\ UNCHANGED <<now, held, due, listed, stale>>
  BY <1>1, VoucherPart DEF Destroy, Editable, IInv
<1>3. row \in Voucher /\ row.status = "deleted" /\ row.name = NotSet
  BY DEF NoVoucher, Voucher
<1> HIDE DEF row
<1>4. \A w \in Vouchers \ {v} : voucher[w].name # old
  BY <1>1, <1>2 DEF VoucherOK, Exists
<1>5. VoucherOK' /\ voucher'[v] = row /\ \A w \in Vouchers \ {v} : voucher'[w] = voucher[w]
  BY <1>2, <1>3, SetVoucher
<1>6. rows' \subseteq Names \X Vouchers
  BY <1>2 DEF TypeOK
<1>7. TypeOK'
  BY <1>2, <1>5, <1>6 DEF TypeOK, VoucherOK
<1>8. DueInv' /\ ListedInv'
  BY <1>2, <1>3, <1>5, ReadingsKept
<1>9. \A m \in Names, w \in Vouchers : <<m, w>> \in rows' <=> <<m, w>> \in rows /\ m # old
  BY <1>2, InRowsNamed
<1>10. RowInv'
  <2> SUFFICES ASSUME NEW m \in Names, NEW w \in Vouchers \ stale
               PROVE  <<m, w>> \in rows' <=> Usable(w)' /\ m = voucher'[w].name
    BY <1>2 DEF RowInv
  <2>1. <<m, w>> \in rows <=> Usable(w) /\ m = voucher[w].name
    BY DEF IInv, RowInv
  <2>2. CASE w = v
    BY <1>1, <1>3, <1>5, <1>9, <2>1, <2>2 DEF Usable
  <2>3. CASE w # v
    BY <1>4, <1>5, <1>9, <2>1, <2>3 DEF Usable
  <2> QED
    BY <2>2, <2>3
<1> QED
  BY <1>7, <1>8, <1>10 DEF IInv

LEMMA FetchStep ==
  ASSUME IInv, NEW c \in Logins \cup Managers, NEW v \in Vouchers, Fetch(c, v)
  PROVE  IInv'
<1> DEFINE reading == [voucher |-> v,
                       seen |-> IF c \in Logins THEN voucher[v].status ELSE voucher[v].name]
<1>1. /\ TypeOK /\ VoucherOK /\ Exists(v) /\ held' = [held EXCEPT ![c] = reading]
      /\ UNCHANGED <<voucher, rows, now, due, listed, stale>>
  BY VoucherPart DEF Fetch, IInv
<1>2. /\ voucher[v].status \in {"unused", "active", "expired", "disabled"}
      /\ voucher[v].name \in Names
  BY <1>1 DEF VoucherOK, Exists, Voucher
<1>3. reading \in Held
  BY <1>2 DEF Held
<1> HIDE DEF reading
<1>4. held' \in [Logins \cup Managers -> Held \cup {NotSet}]
  BY <1>1, <1>3 DEF TypeOK
<1>5. TypeOK'
  BY <1>1, <1>4 DEF TypeOK, Exists
<1>6. RowInv' /\ DueInv' /\ ListedInv'
  BY <1>1 DEF IInv, RowInv, DueInv, ListedInv, Usable, OverdueAt
<1> QED
  BY <1>5, <1>6 DEF IInv

LEMMA ReleaseStep ==
  ASSUME TypeOK, NEW c \in Logins \cup Managers, Release(c)
  PROVE  held' \in [Logins \cup Managers -> Held \cup {NotSet}]
BY DEF Release, TypeOK

\* An activation after a revocation is stale; otherwise the row is there already.
LEMMA ActivateStep ==
  ASSUME IInv, NEW c \in Logins, Activate(c)
  PROVE  IInv'
<1>1. PICK v : v = held[c].voucher
  OBVIOUS
<1>2. /\ TypeOK /\ VoucherOK /\ v \in Vouchers /\ Release(c) /\ UNCHANGED <<rows, now, due, listed>>
  BY <1>1, VoucherPart DEF Activate, IInv, TypeOK, Held
<1>3. held' \in [Logins \cup Managers -> Held \cup {NotSet}]
  BY <1>2, ReleaseStep
<1>4. CASE held[c].seen = "unused" /\ Exists(v)
  <2> DEFINE row == [voucher[v] EXCEPT !.status = "active", !.expires = now + Duration]
  <2>1. /\ now + Duration <= MaxTime
        /\ voucher' = [voucher EXCEPT ![v].status = "active", ![v].expires = now + Duration]
        /\ stale' = IF voucher[v].status = "unused" THEN stale ELSE stale \cup {v}
    BY <1>1, <1>4 DEF Activate
  <2>2. voucher' = [voucher EXCEPT ![v] = row]
    BY <1>2, <2>1 DEF VoucherOK
  <2>3. /\ now + Duration \in 0 .. MaxTime /\ now + Duration > now /\ now + Duration \in Nat
        /\ now + Duration # NotSet
    BY <1>2, <2>1, TimeAssumption, NullAssumption DEF TypeOK
  <2>4. /\ row \in Voucher /\ row.status = "active" /\ row.expires = now + Duration
        /\ row.name = voucher[v].name
    BY <1>2, <2>3 DEF VoucherOK, Voucher
  <2>4a. row.expires # NotSet
    BY <2>3, <2>4
  <2> HIDE DEF row
  <2>5. \A w \in Vouchers \ {v} : voucher[w].name # voucher[v].name
    BY <1>2, <1>4 DEF VoucherOK
  <2>6. voucher[v].name # NotSet
    BY <1>2, <1>4 DEF VoucherOK
  <2>6a. /\ row \in Voucher
         /\ row.name # NotSet <=> row.status \notin {"none", "deleted"}
         /\ row.status = "active" => row.expires # NotSet
         /\ row.name # NotSet => \A w \in Vouchers \ {v} : voucher[w].name # row.name
    BY <2>4, <2>4a, <2>5, <2>6
  <2>7. VoucherOK' /\ voucher'[v] = row /\ \A w \in Vouchers \ {v} : voucher'[w] = voucher[w]
    BY <1>2, <2>2, <2>6a, SetVoucher
  <2>8. TypeOK'
    BY <1>2, <1>3, <2>1, <2>7 DEF TypeOK, VoucherOK
  <2>9. DueInv' /\ ListedInv'
    BY <1>2, <2>3, <2>4, <2>7, ReadingsKept
  <2>10. RowInv'
    <3> SUFFICES ASSUME NEW m \in Names, NEW w \in Vouchers, w \notin stale'
                 PROVE  <<m, w>> \in rows' <=> Usable(w)' /\ m = voucher'[w].name
      BY DEF RowInv
    <3>1. w \notin stale /\ (w = v => voucher[v].status = "unused")
      BY <2>1
    <3>2. <<m, w>> \in rows <=> Usable(w) /\ m = voucher[w].name
      BY <3>1 DEF IInv, RowInv
    <3>3. CASE w = v
      BY <1>2, <2>4, <2>7, <3>1, <3>2, <3>3 DEF Usable
    <3>4. CASE w # v
      BY <1>2, <2>7, <3>2, <3>4 DEF Usable
    <3> QED
      BY <3>3, <3>4
  <2> QED
    BY <2>8, <2>9, <2>10 DEF IInv
<1>5. CASE ~(held[c].seen = "unused" /\ Exists(v))
  <2>1. UNCHANGED <<voucher, stale>>
    BY <1>1, <1>5 DEF Activate
  <2>2. TypeOK'
    BY <1>2, <1>3, <2>1 DEF TypeOK, Exists
  <2>3. RowInv' /\ DueInv' /\ ListedInv'
    BY <1>2, <2>1 DEF IInv, RowInv, DueInv, ListedInv, Usable, OverdueAt
  <2> QED
    BY <2>2, <2>3 DEF IInv
<1> QED
  BY <1>4, <1>5

\* Under an old username the voucher, and the one that has the name now, are stale.
LEMMA DisableStep ==
  ASSUME IInv, NEW c \in Managers, Disable(c)
  PROVE  IInv'
<1>1. PICK v : v = held[c].voucher
  OBVIOUS
<1>2. PICK n : n = held[c].seen
  OBVIOUS
<1>3. /\ TypeOK /\ VoucherOK /\ v \in Vouchers /\ Release(c) /\ UNCHANGED <<now, due, listed>>
  BY <1>1, VoucherPart DEF Disable, IInv, TypeOK, Held
<1>4. held' \in [Logins \cup Managers -> Held \cup {NotSet}]
  BY <1>3, ReleaseStep
<1>5. CASE Exists(v)
  <2> DEFINE row == [voucher[v] EXCEPT !.status = "disabled"]
  <2>1. /\ voucher' = [voucher EXCEPT ![v] = row]
        /\ rows' = rows \ RowsNamed({n})
        /\ stale' = IF voucher[v].name = n THEN stale
                    ELSE stale \cup {v} \cup {w \in Vouchers : voucher[w].name = n}
    BY <1>1, <1>2, <1>3, <1>5 DEF Disable
  <2>2. row \in Voucher /\ row.status = "disabled" /\ row.name = voucher[v].name
    BY <1>3 DEF VoucherOK, Voucher
  <2> HIDE DEF row
  <2>3. /\ \A w \in Vouchers \ {v} : voucher[w].name # voucher[v].name
        /\ voucher[v].name # NotSet
    BY <1>3, <1>5 DEF VoucherOK
  <2>4. VoucherOK' /\ voucher'[v] = row /\ \A w \in Vouchers \ {v} : voucher'[w] = voucher[w]
    BY <1>3, <2>1, <2>2, <2>3, SetVoucher
  <2>5. rows' \subseteq Names \X Vouchers /\ stale' \subseteq Vouchers /\ stale \subseteq stale'
    BY <1>3, <2>1 DEF TypeOK
  <2>6. TypeOK'
    BY <1>3, <1>4, <2>4, <2>5 DEF TypeOK, VoucherOK
  <2>7. DueInv' /\ ListedInv'
    BY <1>3, <2>2, <2>4, ReadingsKept
  <2>8. \A m \in Names, w \in Vouchers : <<m, w>> \in rows' <=> <<m, w>> \in rows /\ m # n
    BY <1>3, <2>1, InRowsNamed
  <2>9. RowInv'
    <3> SUFFICES ASSUME NEW m \in Names, NEW w \in Vouchers, w \notin stale'
                 PROVE  <<m, w>> \in rows' <=> Usable(w)' /\ m = voucher'[w].name
      BY DEF RowInv
    <3>1. <<m, w>> \in rows <=> Usable(w) /\ m = voucher[w].name
      BY <2>5 DEF IInv, RowInv
    <3>2. CASE w = v
      BY <2>1, <2>2, <2>4, <2>8, <3>1, <3>2 DEF Usable
    <3>3. CASE w # v
      <4>1. voucher[w].name # n
        BY <2>1, <2>3, <3>3
      <4> QED
        BY <2>4, <2>8, <3>1, <3>3, <4>1 DEF Usable
    <3> QED
      BY <3>2, <3>3
  <2> QED
    BY <2>6, <2>7, <2>9 DEF IInv
<1>6. CASE ~Exists(v)
  <2>1. UNCHANGED <<voucher, rows, stale>>
    BY <1>1, <1>6 DEF Disable
  <2>2. TypeOK'
    BY <1>3, <1>4, <2>1 DEF TypeOK, Exists
  <2>3. RowInv' /\ DueInv' /\ ListedInv'
    BY <1>3, <2>1 DEF IInv, RowInv, DueInv, ListedInv, Usable, OverdueAt
  <2> QED
    BY <2>2, <2>3 DEF IInv
<1> QED
  BY <1>5, <1>6

-----------------------------------------------------------------------------
(* The clock, the timer and the synchronisation.                           *)

LEMMA TickStep ==
  ASSUME IInv, Tick
  PROVE  IInv'
<1>1. /\ TypeOK /\ now \in Nat /\ now' = now + 1 /\ now' \in 0 .. MaxTime
      /\ UNCHANGED <<voucher, rows, held, due, listed, stale>>
  BY TimeAssumption DEF Tick, IInv, TypeOK
<1>2. TypeOK'
  BY <1>1 DEF TypeOK, Exists
<1>3. DueInv'
  <2>1. due # NotSet => due.at \in Nat
    BY <1>1 DEF TypeOK
  <2> QED
    BY <1>1, <2>1 DEF IInv, DueInv, OverdueAt
<1>4. RowInv' /\ ListedInv'
  BY <1>1 DEF IInv, RowInv, ListedInv, Usable
<1> QED
  BY <1>2, <1>3, <1>4 DEF IInv

LEMMA ExpireListStep ==
  ASSUME IInv, ExpireList
  PROVE  IInv'
<1> DEFINE over == {v \in Vouchers : Overdue(v)}
           listing == [at |-> now, vouchers |-> over]
<1>1. /\ TypeOK /\ due' = listing /\ now \in 0 .. MaxTime /\ now \in Nat
      /\ UNCHANGED <<voucher, rows, now, held, listed, stale>>
  BY DEF ExpireList, IInv, TypeOK
<1>2. /\ listing \in [at : 0 .. MaxTime, vouchers : SUBSET Vouchers]
      /\ listing.at = now /\ listing.vouchers = over
  BY <1>1
<1>3. \A v \in Vouchers : OverdueAt(v, now) => v \in over
  BY DEF Overdue
<1> HIDE DEF over, listing
<1>4. TypeOK'
  BY <1>1, <1>2 DEF TypeOK, Exists
<1>5. DueInv'
  BY <1>1, <1>2, <1>3 DEF DueInv, OverdueAt
<1>6. RowInv' /\ ListedInv'
  BY <1>1 DEF IInv, RowInv, ListedInv, Usable
<1> QED
  BY <1>4, <1>5, <1>6 DEF IInv

\* Of the listed vouchers those that are no longer overdue but still usable lose
\* their rows, and are stale; no other voucher is expired.
LEMMA ExpireWriteStep ==
  ASSUME IInv, ExpireWrite
  PROVE  IInv'
<1> DEFINE over == {v \in Vouchers : OverdueAt(v, due.at)}
           names == {voucher[v].name : v \in due.vouchers}
<1>1. /\ TypeOK /\ VoucherOK /\ due # NotSet /\ due' = NotSet
      /\ voucher' = [v \in Vouchers |-> IF v \in over THEN [voucher[v] EXCEPT !.status = "expired"]
                                        ELSE voucher[v]]
      /\ rows' = rows \ RowsNamed(names)
      /\ stale' = stale \cup {v \in due.vouchers \ over : Usable(v)}
      /\ UNCHANGED <<now, held, listed>>
  BY VoucherPart DEF ExpireWrite, IInv
<1>2. /\ due.vouchers \subseteq Vouchers /\ over \subseteq due.vouchers
      /\ \A v \in over : voucher[v].status = "active"
  BY <1>1 DEF IInv, TypeOK, DueInv, OverdueAt
<1>3. \A n : n \in names <=> \E v \in due.vouchers : voucher[v].name = n
  OBVIOUS
<1> HIDE DEF over, names
<1>4. \A v \in Vouchers :
        /\ voucher'[v] \in Voucher /\ voucher'[v].name = voucher[v].name
        /\ voucher'[v].expires = voucher[v].expires
        /\ voucher'[v].status = IF v \in over THEN "expired" ELSE voucher[v].status
  BY <1>1 DEF VoucherOK, Voucher
<1>5. /\ voucher' \in [Vouchers -> Voucher]
      /\ \A v \in Vouchers : /\ Exists(v)' <=> voucher'[v].name # NotSet
                             /\ voucher'[v].status = "active" => voucher'[v].expires # NotSet
      /\ \A v, w \in Vouchers : v # w /\ Exists(v)' => voucher'[v].name # voucher'[w].name
  <2>1. voucher' \in [Vouchers -> Voucher]
    BY <1>1, <1>4
  <2>2. \A v \in Vouchers : Exists(v)' <=> Exists(v)
    BY <1>2, <1>4 DEF Exists
  <2> QED
    BY <1>1, <1>4, <2>1, <2>2 DEF VoucherOK
<1>6. TypeOK'
  BY <1>1, <1>2, <1>5 DEF TypeOK
<1>7. RowInv'
  <2> SUFFICES ASSUME NEW n \in Names, NEW v \in Vouchers, v \notin stale'
               PROVE  <<n, v>> \in rows' <=> Usable(v)' /\ n = voucher'[v].name
    BY DEF RowInv
  <2>1. v \notin stale /\ (v \in due.vouchers => v \in over \/ ~Usable(v))
    BY <1>1
  <2>2. <<n, v>> \in rows <=> Usable(v) /\ n = voucher[v].name
    BY <2>1 DEF IInv, RowInv
  <2>3. <<n, v>> \in rows' <=> <<n, v>> \in rows /\ n \notin names
    BY <1>1, InRowsNamed
  <2>4. CASE v \in over
    <3>1. v \in due.vouchers /\ ~Usable(v)'
      BY <1>2, <1>4, <2>4 DEF Usable
    <3> QED
      BY <1>3, <2>2, <2>3, <3>1
  <2>5. CASE v \notin over
    <3>1. Usable(v)' <=> Usable(v)
      BY <1>4, <2>5 DEF Usable
    <3>2. ASSUME Usable(v), n = voucher[v].name PROVE n \notin names
      <4> SUFFICES ASSUME NEW w \in due.vouchers, voucher[w].name = n PROVE FALSE
        BY <1>3
      <4>1. w # v
        BY <2>1, <2>5, <3>2
      <4>2. Exists(v)
        BY <3>2 DEF Usable, Exists
      <4> QED
        BY <1>1, <1>2, <3>2, <4>1, <4>2 DEF VoucherOK
    <3> QED
      BY <1>4, <2>2, <2>3, <3>1, <3>2
  <2> QED
    BY <2>4, <2>5
<1>8. DueInv'
  BY <1>1 DEF DueInv
<1>9. ListedInv'
  BY <1>1, <1>4 DEF IInv, TypeOK, ListedInv
<1> QED
  BY <1>6, <1>7, <1>8, <1>9 DEF IInv

LEMMA SyncListStep ==
  ASSUME IInv, SyncList
  PROVE  IInv'
<1>1. /\ TypeOK /\ listed' = {v \in Vouchers : voucher[v].status = "active"}
      /\ UNCHANGED <<voucher, rows, now, held, due, stale>>
  BY DEF SyncList, IInv
<1>2. TypeOK'
  BY <1>1 DEF TypeOK, Exists
<1>3. RowInv' /\ DueInv' /\ ListedInv'
  BY <1>1 DEF IInv, RowInv, DueInv, ListedInv, Usable, OverdueAt
<1> QED
  BY <1>2, <1>3 DEF IInv

\* The row that is restored is missing only for a voucher that is stale, or
\* becomes so now because it is no longer in use.
LEMMA SyncOneStep ==
  ASSUME IInv, NEW v \in Vouchers, SyncOne(v)
  PROVE  IInv'
<1>1. PICK n : n = voucher[v].name
  OBVIOUS
<1>2. /\ TypeOK /\ VoucherOK /\ v \in listed /\ listed' = listed \ {v}
      /\ UNCHANGED <<voucher, now, held, due>>
  BY VoucherPart DEF SyncOne, IInv
<1>3. n \in Names /\ \A w \in Vouchers \ {v} : voucher[w].name # n
  <2>1. Exists(v)
    BY <1>2 DEF IInv, ListedInv, Exists
  <2> QED
    BY <1>1, <1>2, <2>1 DEF VoucherOK, Voucher
<1>4. DueInv' /\ ListedInv'
  BY <1>2 DEF IInv, DueInv, ListedInv, OverdueAt
<1>5. CASE RowsNamed({n}) = {}
  <2>1. rows' = rows \cup {<<n, v>>} /\ stale' = IF Usable(v) THEN stale ELSE stale \cup {v}
    BY <1>1, <1>5 DEF SyncOne
  <2>2. TypeOK'
    BY <1>2, <1>3, <2>1 DEF TypeOK, Exists
  <2>3. RowInv'
    <3> SUFFICES ASSUME NEW m \in Names, NEW w \in Vouchers, w \notin stale'
                 PROVE  <<m, w>> \in rows' <=> Usable(w)' /\ m = voucher'[w].name
      BY DEF RowInv
    <3>1. w \notin stale /\ (w = v => Usable(v))
      BY <2>1
    <3>2. <<m, w>> \in rows <=> Usable(w) /\ m = voucher[w].name
      BY <3>1 DEF IInv, RowInv
    <3>3. <<m, w>> \in rows' <=> <<m, w>> \in rows \/ (m = n /\ w = v)
      BY <2>1
    <3> QED
      BY <1>1, <1>2, <3>1, <3>2, <3>3 DEF Usable
  <2> QED
    BY <1>4, <2>2, <2>3 DEF IInv
<1>6. CASE RowsNamed({n}) # {}
  <2>1. UNCHANGED <<rows, stale>>
    BY <1>1, <1>6 DEF SyncOne
  <2>2. TypeOK' /\ RowInv'
    BY <1>2, <2>1 DEF IInv, TypeOK, Exists, RowInv, Usable
  <2> QED
    BY <1>4, <2>2 DEF IInv
<1> QED
  BY <1>5, <1>6

LEMMA StutterStep == IInv /\ UNCHANGED vars => IInv'
BY DEF IInv, vars, TypeOK, Exists, RowInv, DueInv, ListedInv, Usable, OverdueAt

LEMMA InvNext == IInv /\ [Next]_vars => IInv'
<1> SUFFICES ASSUME IInv, [Next]_vars PROVE IInv'
  OBVIOUS
<1>1. CASE Tick
  BY <1>1, TickStep
<1>2. CASE Expire
  BY <1>2, ExpireListStep, ExpireWriteStep DEF Expire
<1>3. CASE SyncList
  BY <1>3, SyncListStep
<1>4. ASSUME NEW v \in Vouchers, SyncOne(v) PROVE IInv'
  BY <1>4, SyncOneStep
<1>5. ASSUME NEW v \in Vouchers, Destroy(v) PROVE IInv'
  BY <1>5, DestroyStep
<1>6. ASSUME NEW v \in Vouchers, NEW n \in Names, Edit(v, n) PROVE IInv'
  BY <1>6, EditStep
<1>7. ASSUME NEW v \in Vouchers, NEW n \in Names, NEW sold \in BOOLEAN, Create(v, n, sold)
      PROVE  IInv'
  BY <1>7, CreateStep
<1>8. ASSUME NEW v \in Vouchers, NEW c \in Logins \cup Managers, Fetch(c, v) PROVE IInv'
  BY <1>8, FetchStep
<1>9. ASSUME NEW c \in Logins, Activate(c) PROVE IInv'
  BY <1>9, ActivateStep
<1>10. ASSUME NEW c \in Managers, Disable(c) PROVE IInv'
  BY <1>10, DisableStep
<1>11. CASE UNCHANGED vars
  BY <1>11, StutterStep
<1> QED
  BY <1>1, <1>2, <1>3, <1>4, <1>5, <1>6, <1>7, <1>8, <1>9, <1>10, <1>11 DEF Next

-----------------------------------------------------------------------------
(* The theorems.                                                           *)

\* The inductive invariant: the rows, what the timer has listed and what the
\* synchronisation has listed agree with the vouchers.
THEOREM Invariant == Spec => []IInv
BY InvInit, InvNext, PTL DEF Spec

\* Every variable keeps its type; a username is that of one voucher.
THEOREM TypeCorrect == Spec => []TypeOK
<1>1. IInv => TypeOK
  BY DEF IInv
<1> QED
  BY <1>1, Invariant, PTL

\* The rows that open the hotspot are those of the unused and active vouchers,
\* unless a write was based on an outdated reading of the voucher.
THEOREM AccessFollowsStatusUnlessStaleAlways == Spec => []AccessFollowsStatusUnlessStale
<1>1. IInv => AccessFollowsStatusUnlessStale
  <2> SUFFICES ASSUME IInv, NEW v \in Vouchers \ stale
               PROVE  {r \in rows : r[2] = v} =
                        IF Usable(v) THEN {<<voucher[v].name, v>>} ELSE {}
    BY DEF AccessFollowsStatusUnlessStale
  <2>1. rows \subseteq Names \X Vouchers /\ VoucherOK
    BY VoucherPart DEF IInv, TypeOK
  <2>2. \A n \in Names : <<n, v>> \in rows <=> Usable(v) /\ n = voucher[v].name
    BY DEF IInv, RowInv
  <2>3. Usable(v) => voucher[v].name \in Names
    BY <2>1 DEF VoucherOK, Usable, Exists, Voucher
  <2>4. \A r \in rows : r[2] = v => Usable(v) /\ r = <<voucher[v].name, v>>
    BY <2>1, <2>2
  <2> QED
    BY <2>2, <2>3, <2>4
<1> QED
  BY <1>1, Invariant, PTL

==============================================================================
