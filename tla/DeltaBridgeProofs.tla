-------------------------- MODULE DeltaBridgeProofs --------------------------
(***************************************************************************)
(* Theorems about DeltaBridge, for any number of paper positions, options  *)
(* and strategies and whatever the bounds.                                 *)
(***************************************************************************)
EXTENDS DeltaBridge, FiniteSetTheorems, TLAPS

-----------------------------------------------------------------------------
(* The inductive invariant.  That custody is kept rests on an entry and an  *)
(* exit never working on one trade with its product known: a trade has no  *)
(* product before its entry is recorded, and only then can an exit be sold. *)

\* Before OnOpen nothing is known of p.
Unopened(p) ==
  p \notin opened => /\ trades[p] = Nobody /\ entering[p] = "no"
                     /\ \A c \in closing : c.t # p

\* While its entry is under way a trade has no product and is not CLOSED; unless it
\* is open its contract counts as lost.
EntryOpen(p) ==
  entering[p] # "no" =>
    /\ trades[p].product = "none" /\ trades[p].status # "CLOSED"
    /\ Open(p) \/ OptionOf[p] \in lost
    /\ OptionOf[p] \notin expired
    /\ \A c \in closing : c.t = p => c.product = "none"

\* Only an exit that names a product is sold.
SoldNamed == \A c \in closing : c.pc = "sold" => c.product # "none"

\* Only trades of options that have settled expire.
EndsExpired == \A t \in monitor.ends : t \in Papers /\ OptionOf[t] \in expired

Held(o) ==
  held[o] > 0 => \/ Known(o) \/ o \in lost
                 \/ \E p \in Papers : OptionOf[p] = o /\ entering[p] = "filled" /\ Open(p)

Overtaken == \A p \in stopped : p \in opened \/ p \in missed

CustodyInv ==
  /\ \A p \in Papers : Unopened(p) /\ EntryOpen(p)
  /\ SoldNamed /\ EndsExpired
  /\ \A o \in Options : Held(o)

ExitInv == Overtaken /\ PaperExitReachesTrade

IInv == CustodyInv /\ OneTradePerStrategy /\ ExitInv

-----------------------------------------------------------------------------
(* Type correctness. *)

\* What marking and copying trades, and naming a slot, do to the types.
LEMMA MarkType ==
  ASSUME TypeOK, NEW t \in Names, NEW status \in {"FAILED", "CLOSED"}, Mark(t, status)
  PROVE  trades' \in [Names -> Trade]
BY DEF TypeOK, Mark, Trade

LEMMA CopyType ==
  ASSUME TypeOK, NEW t \in Names, NEW by \in {"paper", "monitor", "all"}
  PROVE  Copy(t, by) \in Exit
BY DEF TypeOK, Copy, Exit, Trade

LEMMA ExitsType ==
  ASSUME TypeOK, NEW t \in Names, NEW by \in {"paper", "monitor"}, Exits(t, by)
  PROVE  closing' \subseteq Exit
BY CopyType DEF TypeOK, Exits

LEMMA SlotIsFree ==
  ASSUME NEW o \in Options, HasSlot(o)
  PROVE  Slot(o) \in Adopted /\ Slot(o)[1] = o /\ Free(Slot(o))
BY DEF HasSlot, Slot, Adopted

LEMMA NamesOfPapers == Papers \subseteq Names /\ \A o \in Options, t \in Papers : HasSlot(o) => t # Slot(o)
BY SlotIsFree, DeltaBridgeAssumption DEF Names, DeltaBridgeAssumption

LEMMA FilledType ==
  ASSUME NEW S \in SUBSET Papers, NEW o \in Options
  PROVE  /\ Cardinality({p \in S : OptionOf[p] = o}) \in Nat
         /\ Cardinality({p \in S : OptionOf[p] = o}) > 0 => \E p \in S : OptionOf[p] = o
<1>1. IsFiniteSet({p \in S : OptionOf[p] = o})
  <2>1. {p \in S : OptionOf[p] = o} \subseteq Papers /\ IsFiniteSet(Papers)
    BY DeltaBridgeAssumption DEF DeltaBridgeAssumption
  <2> QED BY <2>1, FS_Subset
<1>2. {p \in S : OptionOf[p] = o} = {} => Cardinality({p \in S : OptionOf[p] = o}) = 0
  BY FS_EmptySet
<1> QED BY <1>1, <1>2, FS_CardinalityType

\* An exit that is sold names a product: without it CloseFails would not be typed.
LEMMA TypeStep == TypeOK /\ SoldNamed /\ [Next]_vars => TypeOK'
<1> SUFFICES ASSUME TypeOK, SoldNamed, [Next]_vars PROVE TypeOK' OBVIOUS
<1> USE NamesOfPapers, DeltaBridgeAssumption DEF DeltaBridgeAssumption, process, papers, tasks, venue, history
<1>1. ASSUME NEW p \in Papers, OnOpen(p) PROVE TypeOK'
  BY <1>1 DEF TypeOK, OnOpen, Trade
<1>2. ASSUME NEW p \in Papers, OnOpenSkipped(p) PROVE TypeOK'
  BY <1>2 DEF TypeOK, OnOpenSkipped
<1>3. ASSUME NEW p \in Papers, OnClose(p) PROVE TypeOK'
  <2>1. closing' \subseteq Exit BY <1>3, ExitsType DEF OnClose
  <2> QED BY <1>3, <2>1 DEF TypeOK, OnClose
<1>4. ASSUME NEW p \in Papers, EntryFills(p) PROVE TypeOK'
  BY <1>4 DEF TypeOK, EntryFills
<1>5. ASSUME NEW p \in Papers, EntryUnfilled(p) PROVE TypeOK'
  BY <1>5 DEF TypeOK, EntryUnfilled
<1>6. ASSUME NEW p \in Papers, EntryRecorded(p) PROVE TypeOK'
  BY <1>6 DEF TypeOK, EntryRecorded, Fill, Trade
<1>7. ASSUME NEW p \in Papers, EntryFails(p) PROVE TypeOK'
  <2>1. trades' \in [Names -> Trade] BY <1>7, MarkType DEF EntryFails
  <2> QED BY <1>7, <2>1 DEF TypeOK, EntryFails
<1>8. ASSUME NEW c \in closing, CloseFills(c) PROVE TypeOK'
  <2>1. c \in Exit /\ c.product \in Options /\ [c EXCEPT !.pc = "sold"] \in Exit
    BY <1>8 DEF TypeOK, CloseFills, Exit
  <2>2. held[c.product] \in Nat /\ c.size \in Nat BY <2>1 DEF TypeOK, Exit
  <2>3. Left(c) \in Nat BY <2>2 DEF Left
  <2> QED BY <1>8, <2>1, <2>3 DEF TypeOK, CloseFills, Advance
<1>9. ASSUME NEW c \in closing, CloseUnfilled(c) PROVE TypeOK'
  <2>1. c \in Exit /\ [c EXCEPT !.pc = "sold"] \in Exit BY DEF TypeOK, Exit
  <2> QED BY <1>9, <2>1 DEF TypeOK, CloseUnfilled, Advance
<1>10. ASSUME NEW c \in closing, CloseRecorded(c) PROVE TypeOK'
  <2>1. c.t \in Names BY DEF TypeOK, Exit
  <2>2. trades' \in [Names -> Trade] BY <1>10, <2>1, MarkType DEF CloseRecorded
  <2> QED BY <1>10, <2>2 DEF TypeOK, CloseRecorded
<1>11. ASSUME NEW c \in closing, CloseFails(c) PROVE TypeOK'
  <2>1. c.t \in Names /\ (c.pc = "sold" => c.product \in Options)
    BY DEF TypeOK, Exit, SoldNamed
  <2>2. trades' \in [Names -> Trade] BY <1>11, <2>1, MarkType DEF CloseFails, TypeOK
  <2> QED BY <1>11, <2>1, <2>2 DEF TypeOK, CloseFails, Entering
<1>12. ASSUME NEW t \in Names, MonitorExits(t) PROVE TypeOK'
  <2>1. closing' \subseteq Exit BY <1>12, ExitsType DEF MonitorExits
  <2> QED BY <1>12, <2>1 DEF TypeOK, MonitorExits
<1>13. ASSUME NEW t \in Names, MonitorExpires(t) PROVE TypeOK'
  <2>1. trades' \in [Names -> Trade] BY <1>13, MarkType DEF MonitorExpires
  <2> QED BY <1>13, <2>1 DEF TypeOK, MonitorExpires
<1>14. CASE MonitorReads
  BY <1>14 DEF TypeOK, MonitorReads, OpenTrades
<1>15. CASE AdoptReads
  BY <1>15 DEF TypeOK, AdoptReads
<1>16. CASE AdoptUntracked
  <2>1. \A t \in Names, o \in Options : HasSlot(o) /\ t = Slot(o) => t[1] \in Options
    BY SlotIsFree
  <2>2. trades' \in [Names -> Trade]
    BY <1>16, <2>1 DEF TypeOK, AdoptUntracked, Adoptable, Trade
  <2> QED BY <1>16, <2>2 DEF TypeOK, AdoptUntracked, NoSweep
<1>17. CASE CloseAll
  BY <1>17, CopyType DEF TypeOK, CloseAll, OpenTrades
<1>18. CASE ClearHistory
  BY <1>18 DEF TypeOK, ClearHistory, Nobody, Trade
<1>19. CASE Crash
  <2> PICK S \in SUBSET Sent :
        /\ held' = [o \in Options |-> held[o] + Cardinality({p \in S : OptionOf[p] = o})]
        /\ lost' = lost \cup {OptionOf[p] : p \in S \cup Filled}
    BY <1>19 DEF Crash
  <2>1. S \in SUBSET Papers /\ Filled \subseteq Papers BY DEF Sent, Filled
  <2>2. held' \in [Options -> Nat]
    <3>1. ASSUME NEW o \in Options
          PROVE  held[o] + Cardinality({p \in S : OptionOf[p] = o}) \in Nat
      <4>1. Cardinality({p \in S : OptionOf[p] = o}) \in Nat BY <2>1, FilledType
      <4>2. held[o] \in Nat BY DEF TypeOK
      <4> QED BY <4>1, <4>2
    <3> QED BY <3>1
  <2>3. lost' \subseteq Options BY <2>1 DEF TypeOK
  <2>4. ghost' \subseteq Options BY <1>19 DEF TypeOK, Crash, Exit, SoldNamed
  <2>5. crashes' \in 0..MaxCrashes BY <1>19 DEF TypeOK, Crash
  <2> QED BY <1>19, <2>2, <2>3, <2>4, <2>5 DEF TypeOK, Crash, Asleep, NoSweep
<1>20. CASE Restart
  BY <1>20 DEF TypeOK, Restart
<1>21. ASSUME NEW o \in Options, Settle(o) PROVE TypeOK'
  BY <1>21 DEF TypeOK, Settle
<1>22. CASE UNCHANGED vars
  BY <1>22 DEF TypeOK, vars
<1> QED
  BY <1>1, <1>2, <1>3, <1>4, <1>5, <1>6, <1>7, <1>8, <1>9, <1>10, <1>11, <1>12, <1>13, <1>14,
     <1>15, <1>16, <1>17, <1>18, <1>19, <1>20, <1>21, <1>22
     DEF Next, OfPaper, OfExit, Custody

LEMMA SoldStep == TypeOK /\ SoldNamed /\ [Next]_vars => SoldNamed'
<1> SUFFICES ASSUME TypeOK, SoldNamed, [Next]_vars PROVE SoldNamed' OBVIOUS
<1> USE DEF SoldNamed
<1>1. ASSUME NEW p \in Papers, OnClose(p) PROVE SoldNamed'
  BY <1>1 DEF OnClose, Exits, Copy
<1>2. ASSUME NEW c \in closing, CloseFills(c) \/ CloseUnfilled(c) PROVE SoldNamed'
  <2>1. c \in Exit BY DEF TypeOK
  <2> QED BY <1>2, <2>1 DEF CloseFills, CloseUnfilled, Advance, Exit
<1>3. ASSUME NEW c \in closing, CloseRecorded(c) \/ CloseFails(c) PROVE SoldNamed'
  BY <1>3 DEF CloseRecorded, CloseFails
<1>4. ASSUME NEW t \in Names, MonitorExits(t) PROVE SoldNamed'
  BY <1>4 DEF MonitorExits, Exits, Copy
<1>5. CASE CloseAll
  BY <1>5 DEF CloseAll, Copy
<1>6. CASE Crash
  BY <1>6 DEF Crash
<1>7. CASE UNCHANGED closing
  BY <1>7
<1> QED
  BY <1>1, <1>2, <1>3, <1>4, <1>5, <1>6, <1>7
     DEF Next, OfPaper, OfExit, Custody, vars, tasks, OnOpen, OnOpenSkipped, EntryFills,
         EntryUnfilled, EntryRecorded, EntryFails, MonitorReads, MonitorExpires, AdoptReads,
         AdoptUntracked, ClearHistory, Restart, Settle

\* Every state of the bridge, its orders and its venue is of its type.
THEOREM TypeCorrect == Spec => []TypeOK
<1>1. Init => TypeOK /\ SoldNamed
  BY DeltaBridgeAssumption
     DEF DeltaBridgeAssumption, Init, TypeOK, Nobody, Trade, Asleep, NoSweep, SoldNamed
<1>2. TypeOK /\ SoldNamed /\ [Next]_vars => (TypeOK /\ SoldNamed)'
  BY TypeStep, SoldStep
<1> QED BY <1>1, <1>2, PTL DEF Spec

-----------------------------------------------------------------------------
(* Custody. *)

\* Marking a trade changes no product and opens no trade; adoption fills free names only.
LEMMA MarkShape ==
  ASSUME TypeOK, NEW t \in Names, NEW status \in {"FAILED", "CLOSED"}, Mark(t, status)
  PROVE  /\ \A r \in Names : /\ trades'[r].product = trades[r].product
                             /\ r # t => trades'[r] = trades[r]
         /\ trades'[t] = trades[t] \/ trades'[t].status = status
         /\ trades'[t].status # "OPEN"
BY DEF TypeOK, Mark, Trade, Nobody

LEMMA AdoptShape ==
  ASSUME TypeOK, AdoptUntracked
  PROVE  /\ \A p \in Papers : trades'[p] = trades[p]
         /\ \A t \in Names : trades[t] # Nobody => trades'[t] = trades[t]
<1>1. \A o \in Options : Adoptable(o) => /\ trades[Slot(o)] = Nobody
                                         /\ \A p \in Papers : p # Slot(o)
  BY SlotIsFree, NamesOfPapers DEF Adoptable, Free
<1> QED BY <1>1, NamesOfPapers DEF AdoptUntracked

\* What Exits and the steps of an exit leave of the exits.
LEMMA ExitsShape ==
  ASSUME TypeOK, NEW t \in Names, NEW by \in {"paper", "monitor"}, Exits(t, by)
  PROVE  /\ closing \subseteq closing'
         /\ \A c \in closing' : c \notin closing =>
              Open(t) /\ c.t = t /\ c.product = trades[t].product
         /\ Open(t) => \E c \in closing' : c.t = t /\ c.by = by
<1>1. CASE Open(t) /\ ~Exiting(t, by)
  <2>1. closing' = closing \cup {Copy(t, by)} BY <1>1 DEF Exits
  <2>2. /\ Copy(t, by).t = t /\ Copy(t, by).by = by
        /\ Copy(t, by).product = trades[t].product
    BY DEF Copy
  <2> QED BY <1>1, <2>1, <2>2
<1>2. CASE ~Open(t) \/ Exiting(t, by)
  BY <1>2 DEF Exits, Exiting
<1> QED BY <1>1, <1>2

LEMMA AdvanceShape ==
  ASSUME TypeOK, NEW c \in closing, Advance(c)
  PROVE  \E d \in Exit : /\ d.t = c.t /\ d.by = c.by /\ d.product = c.product
                         /\ closing' = (closing \ {c}) \cup {d}
<1>1. c \in Exit BY DEF TypeOK
<1> QED BY <1>1 DEF Advance, Exit

LEMMA EndsStep == TypeOK /\ EndsExpired /\ [Next]_vars => EndsExpired'
<1> SUFFICES ASSUME TypeOK, EndsExpired, [Next]_vars PROVE EndsExpired' OBVIOUS
<1> USE DEF EndsExpired, venue, tasks
<1>1. CASE MonitorReads
  BY <1>1 DEF MonitorReads, Overdue
<1>2. ASSUME NEW t \in Names, MonitorExits(t) \/ MonitorExpires(t) PROVE EndsExpired'
  BY <1>2 DEF MonitorExits, MonitorExpires, TypeOK
<1>3. CASE Crash
  BY <1>3 DEF Crash, Asleep
<1>4. CASE UNCHANGED monitor /\ expired \subseteq expired'
  BY <1>4
<1> QED
  BY <1>1, <1>2, <1>3, <1>4
     DEF Next, OfPaper, OfExit, Custody, vars, OnOpen, OnOpenSkipped, OnClose, EntryFills,
         EntryUnfilled, EntryRecorded, EntryFails, CloseFills, CloseUnfilled, CloseRecorded,
         CloseFails, AdoptReads, AdoptUntracked, CloseAll, ClearHistory, Restart, Settle

EntryInv == \A p \in Papers : Unopened(p) /\ EntryOpen(p)

LEMMA EntryStep ==
  TypeOK /\ SoldNamed /\ EndsExpired /\ EntryInv /\ [Next]_vars => EntryInv'
<1> SUFFICES ASSUME TypeOK, SoldNamed, EndsExpired, EntryInv, [Next]_vars,
                    NEW p \in Papers
             PROVE  Unopened(p)' /\ EntryOpen(p)'
  BY DEF EntryInv
<1> USE NamesOfPapers
    DEF Unopened, EntryOpen, Open, process, papers, tasks, venue, history
<1>0. Unopened(p) /\ EntryOpen(p) BY DEF EntryInv
<1>1. ASSUME NEW q \in Papers, OnOpen(q) PROVE Unopened(p)' /\ EntryOpen(p)'
  BY <1>0, <1>1 DEF OnOpen, TypeOK
<1>2. ASSUME NEW q \in Papers, OnOpenSkipped(q) PROVE Unopened(p)' /\ EntryOpen(p)'
  BY <1>0, <1>2 DEF OnOpenSkipped
<1>3. ASSUME NEW q \in Papers, OnClose(q) PROVE Unopened(p)' /\ EntryOpen(p)'
  BY <1>0, <1>3, ExitsShape DEF OnClose, Nobody
<1>4. ASSUME NEW q \in Papers, EntryFills(q) \/ EntryUnfilled(q)
      PROVE  Unopened(p)' /\ EntryOpen(p)'
  BY <1>0, <1>4 DEF EntryFills, EntryUnfilled, TypeOK
<1>5. ASSUME NEW q \in Papers, EntryRecorded(q) PROVE Unopened(p)' /\ EntryOpen(p)'
  BY <1>0, <1>5 DEF EntryRecorded, TypeOK
<1>6. ASSUME NEW q \in Papers, EntryFails(q) PROVE Unopened(p)' /\ EntryOpen(p)'
  BY <1>0, <1>6, MarkShape DEF EntryFails, TypeOK
<1>7. ASSUME NEW c \in closing, CloseFills(c) \/ CloseUnfilled(c)
      PROVE  Unopened(p)' /\ EntryOpen(p)'
  BY <1>0, <1>7, AdvanceShape DEF CloseFills, CloseUnfilled
<1>8. ASSUME NEW c \in closing, CloseRecorded(c) PROVE Unopened(p)' /\ EntryOpen(p)'
  <2>1. c.t \in Names /\ c.product # "none" BY <1>8 DEF TypeOK, Exit, CloseRecorded, SoldNamed
  <2>2. c.t = p => p \in opened /\ entering[p] = "no" BY <1>0, <2>1
  <2>3. c.t # p => trades'[p] = trades[p] BY <1>8, <2>1, MarkShape DEF CloseRecorded
  <2> QED BY <1>0, <1>8, <2>2, <2>3 DEF CloseRecorded
<1>9. ASSUME NEW c \in closing, CloseFails(c) PROVE Unopened(p)' /\ EntryOpen(p)'
  <2>1. CASE c.by = "all" BY <1>0, <1>9, <2>1 DEF CloseFails
  <2>2. CASE c.by # "all"
    <3>1. c.t \in Names BY DEF TypeOK, Exit
    <3>2. c.t = p => p \in opened BY <1>0
    <3>3. /\ trades'[p].product = trades[p].product
          /\ c.t # p => trades'[p] = trades[p]
          /\ c.t = p => trades'[p] = trades[p] \/ trades'[p].status = "FAILED"
      BY <1>9, <2>2, <3>1, MarkShape DEF CloseFails
    <3>4. c.t = p /\ entering[p] # "no" => OptionOf[p] \in lost'
      BY <1>9, <2>2 DEF CloseFails, Entering
    <3> QED BY <1>0, <1>9, <3>2, <3>3, <3>4 DEF CloseFails
  <2> QED BY <2>1, <2>2
<1>10. ASSUME NEW t \in Names, MonitorExits(t) PROVE Unopened(p)' /\ EntryOpen(p)'
  BY <1>0, <1>10, ExitsShape DEF MonitorExits, Nobody
<1>11. ASSUME NEW t \in Names, MonitorExpires(t) PROVE Unopened(p)' /\ EntryOpen(p)'
  <2>1. t = p => entering[p] = "no" BY <1>0, <1>11 DEF MonitorExpires, EndsExpired
  <2>2. /\ t # p => trades'[p] = trades[p]
        /\ trades[p] = Nobody => trades'[p] = Nobody
    BY <1>11, MarkShape DEF MonitorExpires, Mark
  <2> QED BY <1>0, <1>11, <2>1, <2>2 DEF MonitorExpires
<1>12. CASE AdoptUntracked
  BY <1>0, <1>12, AdoptShape DEF AdoptUntracked
<1>13. CASE CloseAll
  BY <1>0, <1>13 DEF CloseAll, Copy, OpenTrades, Nobody
<1>14. CASE ClearHistory
  BY <1>0, <1>14 DEF ClearHistory, Nobody, TypeOK
<1>15. ASSUME NEW o \in Options, Settle(o) PROVE Unopened(p)' /\ EntryOpen(p)'
  BY <1>0, <1>15 DEF Settle
<1>16. CASE Crash
  BY <1>0, <1>16 DEF Crash
<1>17. CASE UNCHANGED <<opened, trades, entering, closing, expired, lost>>
  BY <1>0, <1>17
<1> QED
  BY <1>1, <1>2, <1>3, <1>4, <1>5, <1>6, <1>7, <1>8, <1>9, <1>10, <1>11, <1>12, <1>13, <1>14,
     <1>15, <1>16, <1>17
     DEF Next, OfPaper, OfExit, Custody, vars, MonitorReads, AdoptReads, Restart

LEMMA HeldStep ==
  TypeOK /\ SoldNamed /\ EndsExpired /\ EntryInv /\ (\A o \in Options : Held(o)) /\ [Next]_vars
    => \A o \in Options : Held(o)'
<1> SUFFICES ASSUME TypeOK, SoldNamed, EndsExpired, EntryInv, \A o \in Options : Held(o),
                    [Next]_vars, NEW o \in Options
             PROVE  Held(o)'
  OBVIOUS
<1> USE NamesOfPapers DEF Held, Known, Open, process, papers, tasks, venue, history
<1>0. Held(o) OBVIOUS
\* A step that keeps the products, the fills and the open entries keeps custody.
<1>a. ASSUME held'[o] > 0 => held[o] > 0, lost \subseteq lost',
             \A t \in Names : trades[t].product = o => trades'[t].product = o,
             \A p \in Papers : entering[p] = "filled" /\ OptionOf[p] = o /\ Open(p) =>
               \/ entering'[p] = "filled" /\ trades'[p].status = "OPEN"
               \/ o \in lost' \/ trades'[p].product = o
      PROVE  Held(o)'
  BY <1>0, <1>a
<1>1. ASSUME NEW p \in Papers, OnOpen(p) PROVE Held(o)'
  <2>1. trades[p] = Nobody /\ entering[p] = "no" BY <1>1 DEF OnOpen, EntryInv, Unopened
  <2> QED BY <1>1, <1>a, <2>1 DEF OnOpen, Nobody, TypeOK
<1>2. ASSUME NEW p \in Papers, OnOpenSkipped(p) PROVE Held(o)'
  BY <1>2, <1>a DEF OnOpenSkipped
<1>3. ASSUME NEW p \in Papers, OnClose(p) PROVE Held(o)'
  BY <1>3, <1>a DEF OnClose
<1>4. ASSUME NEW p \in Papers, EntryFills(p) PROVE Held(o)'
  <2>1. Open(p) \/ OptionOf[p] \in lost BY <1>4 DEF EntryFills, EntryInv, EntryOpen
  <2>2. o = OptionOf[p] => Held(o)' BY <1>4, <2>1 DEF EntryFills, TypeOK
  <2>3. o # OptionOf[p] => held'[o] = held[o] BY <1>4 DEF EntryFills, TypeOK
  <2> QED BY <1>4, <1>a, <2>2, <2>3 DEF EntryFills, TypeOK
<1>5. ASSUME NEW p \in Papers, EntryUnfilled(p) PROVE Held(o)'
  BY <1>5, <1>a DEF EntryUnfilled, TypeOK
<1>6. ASSUME NEW p \in Papers, EntryRecorded(p) PROVE Held(o)'
  <2>1. trades[p].product = "none" /\ o # "none"
    BY <1>6, DeltaBridgeAssumption DEF EntryRecorded, EntryInv, EntryOpen, DeltaBridgeAssumption
  <2>2. Open(p) /\ OptionOf[p] = o => trades'[p].product = o
    BY <1>6 DEF EntryRecorded, Recordable, Fill, TypeOK
  <2> QED BY <1>6, <1>a, <2>1, <2>2 DEF EntryRecorded, TypeOK
<1>7. ASSUME NEW p \in Papers, EntryFails(p) PROVE Held(o)'
  <2>1. \A t \in Names : trades'[t].product = trades[t].product /\ (t # p => trades'[t] = trades[t])
    BY <1>7, MarkShape DEF EntryFails
  <2>2. entering[p] = "filled" => OptionOf[p] \in lost' BY <1>7 DEF EntryFails
  <2> QED BY <1>7, <1>a, <2>1, <2>2 DEF EntryFails, TypeOK
<1>8. ASSUME NEW c \in closing, CloseFills(c) PROVE Held(o)'
  <2>1. held'[o] > 0 => held[o] > 0
    <3>1. c \in Exit /\ c.product \in Options /\ c.size \in Nat
      BY <1>8 DEF TypeOK, CloseFills, Exit
    <3>2. held[c.product] > 0 BY <1>8 DEF CloseFills
    <3> QED BY <1>8, <3>1, <3>2 DEF CloseFills, TypeOK
  <2> QED BY <1>8, <1>a, <2>1 DEF CloseFills
<1>9. ASSUME NEW c \in closing, CloseUnfilled(c) PROVE Held(o)'
  BY <1>9, <1>a DEF CloseUnfilled
<1>10. ASSUME NEW c \in closing, CloseRecorded(c) PROVE Held(o)'
  <2>1. c.t \in Names /\ c.product # "none" BY <1>10 DEF TypeOK, Exit, CloseRecorded, SoldNamed
  <2>2. \A p \in Papers : entering[p] = "filled" => p # c.t
    BY <2>1 DEF EntryInv, EntryOpen
  <2>3. \A t \in Names : /\ trades'[t].product = trades[t].product
                         /\ t # c.t => trades'[t] = trades[t]
    BY <1>10, <2>1, MarkShape DEF CloseRecorded
  <2>4. ASSUME NEW p \in Papers, entering[p] = "filled" PROVE trades'[p] = trades[p]
    <3>1. p \in Names /\ p # c.t BY <2>2, <2>4 DEF Names
    <3> QED BY <2>3, <3>1
  <2>5. UNCHANGED <<held, lost, entering>> BY <1>10 DEF CloseRecorded
  <2> QED BY <1>a, <2>3, <2>4, <2>5
<1>11. ASSUME NEW c \in closing, CloseFails(c) PROVE Held(o)'
  <2>1. CASE c.by = "all" BY <1>11, <1>a, <2>1 DEF CloseFails
  <2>2. CASE c.by # "all"
    <3>1. c.t \in Names BY DEF TypeOK, Exit
    <3>2. \A t \in Names : /\ trades'[t].product = trades[t].product
                           /\ t # c.t => trades'[t] = trades[t]
      BY <1>11, <2>2, <3>1, MarkShape DEF CloseFails
    <3>3. \A p \in Papers : p = c.t /\ entering[p] = "filled" => OptionOf[p] \in lost'
      BY <1>11, <2>2 DEF CloseFails, Entering
    <3>4. lost \subseteq lost' BY <1>11 DEF CloseFails
    <3>5. ASSUME NEW p \in Papers, p # c.t PROVE trades'[p] = trades[p]
      <4>1. p \in Names BY DEF Names
      <4> QED BY <3>2, <3>5, <4>1
    <3>6. UNCHANGED <<held, entering>> BY <1>11 DEF CloseFails
    <3> QED BY <1>a, <3>2, <3>3, <3>4, <3>5, <3>6
  <2> QED BY <2>1, <2>2
<1>12. ASSUME NEW t \in Names, MonitorExits(t) PROVE Held(o)'
  BY <1>12, <1>a DEF MonitorExits
<1>13. ASSUME NEW t \in Names, MonitorExpires(t) PROVE Held(o)'
  <2>1. \A p \in Papers : entering[p] = "filled" => p # t
    BY <1>13 DEF MonitorExpires, EndsExpired, EntryInv, EntryOpen
  <2>2. \A r \in Names : trades'[r].product = trades[r].product /\ (r # t => trades'[r] = trades[r])
    BY <1>13, MarkShape DEF MonitorExpires
  <2> QED BY <1>13, <1>a, <2>1, <2>2 DEF MonitorExpires
<1>14. CASE AdoptUntracked
  <2>1. \A t \in Names : trades[t].product = o => trades'[t] = trades[t]
    BY <1>14, AdoptShape, DeltaBridgeAssumption DEF Nobody, DeltaBridgeAssumption
  <2> QED BY <1>14, <1>a, <2>1, AdoptShape DEF AdoptUntracked
<1>15. CASE CloseAll
  BY <1>15, <1>a DEF CloseAll
<1>16. CASE ClearHistory
  <2>1. \A t \in Names : Open(t) => trades'[t] = trades[t] BY <1>16 DEF ClearHistory
  <2>2. \A t \in Names : trades[t].product = o /\ ~Open(t) => o \in lost'
    BY <1>16, DeltaBridgeAssumption DEF ClearHistory, OpenTrades, DeltaBridgeAssumption
  <2>3. lost \subseteq lost' /\ held' = held /\ entering' = entering BY <1>16 DEF ClearHistory
  <2> QED BY <1>0, <2>1, <2>2, <2>3
<1>17. ASSUME NEW x \in Options, Settle(x) PROVE Held(o)'
  BY <1>17, <1>a DEF Settle, TypeOK
<1>18. CASE Crash
  <2> PICK S \in SUBSET Sent :
        /\ held' = [x \in Options |-> held[x] + Cardinality({p \in S : OptionOf[p] = x})]
        /\ lost' = lost \cup {OptionOf[p] : p \in S \cup Filled}
    BY <1>18 DEF Crash
  <2>1. S \in SUBSET Papers BY DEF Sent
  <2>2. /\ Cardinality({p \in S : OptionOf[p] = o}) \in Nat
        /\ Cardinality({p \in S : OptionOf[p] = o}) > 0 => \E p \in S : OptionOf[p] = o
    BY <2>1, FilledType
  <2>3. held[o] \in Nat /\ held'[o] = held[o] + Cardinality({p \in S : OptionOf[p] = o})
    BY DEF TypeOK
  <2>0. (\E p \in S : OptionOf[p] = o) => o \in lost' OBVIOUS
  <2>4. held'[o] > 0 => held[o] > 0 \/ o \in lost' BY <2>0, <2>2, <2>3
  <2>5. \A p \in Papers : entering[p] = "filled" => OptionOf[p] \in lost' BY DEF Filled
  <2>6. trades' = trades /\ lost \subseteq lost' BY <1>18 DEF Crash
  <2> QED BY <1>0, <2>4, <2>5, <2>6
<1>19. CASE UNCHANGED <<trades, entering, held, lost>>
  BY <1>0, <1>19
<1> QED
  BY <1>1, <1>2, <1>3, <1>4, <1>5, <1>6, <1>7, <1>8, <1>9, <1>10, <1>11, <1>12, <1>13, <1>14,
     <1>15, <1>16, <1>17, <1>18, <1>19
     DEF Next, OfPaper, OfExit, Custody, vars, MonitorReads, AdoptReads, Restart

\* Custody over every step, and what follows from it.
LEMMA CustodyStep == TypeOK /\ CustodyInv /\ [Next]_vars => CustodyInv'
BY SoldStep, EndsStep, EntryStep, HeldStep DEF CustodyInv, EntryInv

-----------------------------------------------------------------------------
(* One trade per strategy, the paper exit, and the end of a trade. *)

\* No step but OnOpen opens the trade of a paper position.
LEMMA OnlyOpens ==
  ASSUME TypeOK, CustodyInv, [Next]_vars, NEW p \in Papers, ~OnOpen(p), Open(p)'
  PROVE  Open(p)
<1> USE NamesOfPapers DEF Open, process, papers, tasks, venue, history
<1>1. ASSUME NEW q \in Papers, q # p, OnOpen(q) PROVE Open(p)
  BY <1>1 DEF OnOpen, TypeOK
<1>2. ASSUME NEW q \in Papers, EntryRecorded(q) PROVE Open(p)
  BY <1>2 DEF EntryRecorded, Recordable, CustodyInv, EntryOpen, TypeOK
<1>3. ASSUME NEW q \in Papers, EntryFails(q) PROVE Open(p)
  BY <1>3, MarkShape DEF EntryFails
<1>4. ASSUME NEW c \in closing, CloseRecorded(c) \/ CloseFails(c) PROVE Open(p)
  <2>1. c.t \in Names BY DEF TypeOK, Exit
  <2>2. CASE UNCHANGED trades BY <2>2
  <2>3. CASE \E status \in {"FAILED", "CLOSED"} : Mark(c.t, status)
    BY <2>1, <2>3, MarkShape
  <2> QED BY <1>4, <2>2, <2>3 DEF CloseRecorded, CloseFails
<1>5. ASSUME NEW t \in Names, MonitorExpires(t) PROVE Open(p)
  BY <1>5, MarkShape DEF MonitorExpires
<1>6. CASE AdoptUntracked
  BY <1>6, AdoptShape
<1>7. CASE ClearHistory
  BY <1>7 DEF ClearHistory, Nobody
<1>8. CASE UNCHANGED trades
  BY <1>8
<1> QED
  BY <1>1, <1>2, <1>3, <1>4, <1>5, <1>6, <1>7, <1>8
     DEF Next, OfPaper, OfExit, Custody, vars, OnOpenSkipped, OnClose, EntryFills,
         EntryUnfilled, CloseFills, CloseUnfilled, MonitorReads, MonitorExits, AdoptReads,
         CloseAll, Crash, Restart, Settle

LEMMA OneStep ==
  TypeOK /\ CustodyInv /\ OneTradePerStrategy /\ [Next]_vars => OneTradePerStrategy'
<1> SUFFICES ASSUME TypeOK, CustodyInv, OneTradePerStrategy, [Next]_vars,
                    NEW p \in Papers, NEW r \in Papers,
                    Open(p)', Open(r)', StrategyOf[p] = StrategyOf[r], p # r
             PROVE  FALSE
  BY DEF OneTradePerStrategy
<1>1. ASSUME NEW q \in Papers, NEW x \in Papers, OnOpen(q), x # q, Open(x)',
             StrategyOf[x] = StrategyOf[q]
      PROVE  FALSE
  <2>1. Open(x) BY <1>1, NamesOfPapers DEF OnOpen, Open, TypeOK
  <2> QED BY <1>1, <2>1 DEF OnOpen, Vacant
<1>2. CASE ~OnOpen(p) /\ ~OnOpen(r)
  <2>1. Open(p) /\ Open(r) BY <1>2, OnlyOpens
  <2> QED BY <2>1 DEF OneTradePerStrategy
<1> QED BY <1>1, <1>2

LEMMA ExitStep ==
  TypeOK /\ CustodyInv /\ ExitInv /\ [Next]_vars => ExitInv'
<1> SUFFICES ASSUME TypeOK, CustodyInv, ExitInv, [Next]_vars PROVE ExitInv' OBVIOUS
<1>a. TypeOK' BY TypeStep DEF CustodyInv
<1>b. stopped' \subseteq Papers BY <1>a DEF TypeOK
<1> SUFFICES ASSUME NEW p \in Papers
             PROVE  /\ (p \in stopped => p \in opened \/ p \in missed)'
                    /\ (p \in stopped /\ Open(p) => Exiting(p, "paper") \/ p \in missed)'
  BY <1>b DEF ExitInv, Overtaken, PaperExitReachesTrade
<1> USE DEF Exiting, process, papers, tasks, venue, history
<1>0. /\ p \in stopped => p \in opened \/ p \in missed
      /\ p \in stopped /\ Open(p) => Exiting(p, "paper") \/ p \in missed
  BY DEF ExitInv, Overtaken, PaperExitReachesTrade
<1>1. ASSUME ~OnOpen(p), stopped' = stopped, opened \subseteq opened', missed \subseteq missed',
             Exiting(p, "paper") => Exiting(p, "paper")' \/ ~Open(p)' \/ p \in missed'
      PROVE  /\ (p \in stopped => p \in opened \/ p \in missed)'
             /\ (p \in stopped /\ Open(p) => Exiting(p, "paper") \/ p \in missed)'
  BY <1>0, <1>1, OnlyOpens
<1> DEFINE Goal == /\ (p \in stopped => p \in opened \/ p \in missed)'
                   /\ (p \in stopped /\ Open(p) => Exiting(p, "paper") \/ p \in missed)'
<1>2. CASE OnOpen(p)
  BY <1>0, <1>2 DEF OnOpen
<1>3. ASSUME ~OnOpen(p), NEW q \in Papers, OnClose(q) PROVE Goal
  <2>1. Open(p)' => Open(p) BY <1>3, OnlyOpens
  <2>2. p = q /\ Open(p) => Exiting(p, "paper")' BY <1>3, NamesOfPapers, ExitsShape DEF OnClose
  <2>3. closing \subseteq closing' BY <1>3, NamesOfPapers, ExitsShape DEF OnClose
  <2> QED BY <1>0, <1>3, <2>1, <2>2, <2>3 DEF OnClose
<1>4. ASSUME ~OnOpen(p), NEW c \in closing, CloseFills(c) \/ CloseUnfilled(c) PROVE Goal
  <2>1. Exiting(p, "paper") => Exiting(p, "paper")'
    BY <1>4, AdvanceShape DEF CloseFills, CloseUnfilled
  <2> QED BY <1>1, <1>4, <2>1 DEF CloseFills, CloseUnfilled
<1>5. ASSUME ~OnOpen(p), NEW c \in closing, CloseRecorded(c) \/ CloseFails(c) PROVE Goal
  <2>1. c.t \in Names BY DEF TypeOK, Exit
  <2>2. c.by = "paper" => trades'[c.t].status # "OPEN"
    BY <1>5, <2>1, MarkShape DEF CloseRecorded, CloseFails
  <2>3. closing' = closing \ {c} BY <1>5 DEF CloseRecorded, CloseFails
  <2>4. Exiting(p, "paper") => Exiting(p, "paper")' \/ ~Open(p)' BY <2>2, <2>3 DEF Open
  <2> QED BY <1>1, <1>5, <2>4 DEF CloseRecorded, CloseFails
<1>6. ASSUME ~OnOpen(p), NEW t \in Names, MonitorExits(t) PROVE Goal
  <2>1. closing \subseteq closing' BY <1>6, ExitsShape DEF MonitorExits
  <2> QED BY <1>1, <1>6, <2>1 DEF MonitorExits
<1>7. CASE ~OnOpen(p) /\ CloseAll
  BY <1>1, <1>7 DEF CloseAll
<1>8. CASE ~OnOpen(p) /\ Crash
  <2>1. Exiting(p, "paper") => p \in missed' BY <1>8 DEF Crash
  <2> QED BY <1>1, <1>8, <2>1 DEF Crash
<1>9. CASE /\ ~OnOpen(p) /\ UNCHANGED <<stopped, closing, missed>>
           /\ opened \subseteq opened'
  BY <1>1, <1>9
<1> QED
  BY <1>2, <1>3, <1>4, <1>5, <1>6, <1>7, <1>8, <1>9
     DEF Next, OfPaper, OfExit, Custody, vars, OnOpen, OnOpenSkipped, EntryFills, EntryUnfilled,
         EntryRecorded, EntryFails, MonitorReads, MonitorExpires, AdoptReads, AdoptUntracked,
         ClearHistory, Restart, Settle

\* What EndsForGood says of one step.
EndStep ==
  \A t \in Names :
    trades[t].status \in {"FAILED", "CLOSED"} /\ trades'[t] # trades[t] =>
      \/ trades'[t] = Nobody
      \/ /\ trades'[t].status \in {"FAILED", "CLOSED"}
         /\ Copied(t)

LEMMA EndsLemma == TypeOK /\ CustodyInv /\ [Next]_vars => EndStep
<1> SUFFICES ASSUME TypeOK, CustodyInv, [Next]_vars, NEW t \in Names,
                    trades[t].status \in {"FAILED", "CLOSED"}, trades'[t] # trades[t]
             PROVE  \/ trades'[t] = Nobody
                    \/ trades'[t].status \in {"FAILED", "CLOSED"} /\ Copied(t)
  BY DEF EndStep
<1> DEFINE Goal == \/ trades'[t] = Nobody
                   \/ trades'[t].status \in {"FAILED", "CLOSED"} /\ Copied(t)
<1> USE NamesOfPapers DEF process, papers, tasks, venue, history
<1>1. ASSUME NEW p \in Papers, OnOpen(p) PROVE Goal
  BY <1>1 DEF OnOpen, CustodyInv, Unopened, Nobody, TypeOK
<1>2. ASSUME NEW p \in Papers, EntryRecorded(p) PROVE Goal
  BY <1>2 DEF EntryRecorded, Recordable, CustodyInv, EntryOpen, TypeOK
<1>3. ASSUME NEW p \in Papers, EntryFails(p) PROVE Goal
  BY <1>3, MarkShape DEF EntryFails, Copied, Entering
<1>4. ASSUME NEW c \in closing, CloseRecorded(c) \/ CloseFails(c) PROVE Goal
  <2>1. c.t \in Names BY DEF TypeOK, Exit
  <2>2. PICK status \in {"FAILED", "CLOSED"} : Mark(c.t, status)
    BY <1>4 DEF CloseRecorded, CloseFails
  <2>3. t = c.t /\ trades'[t].status = status BY <2>1, <2>2, MarkShape
  <2> QED BY <2>3 DEF Copied
<1>5. ASSUME NEW r \in Names, MonitorExpires(r) PROVE Goal
  BY <1>5, MarkShape DEF MonitorExpires, Copied, Watched
<1>6. CASE AdoptUntracked
  BY <1>6, AdoptShape DEF Nobody
<1>7. CASE ClearHistory
  BY <1>7 DEF ClearHistory, Open
<1>8. CASE UNCHANGED trades
  BY <1>8
<1> QED
  BY <1>1, <1>2, <1>3, <1>4, <1>5, <1>6, <1>7, <1>8
     DEF Next, OfPaper, OfExit, Custody, vars, OnOpenSkipped, OnClose, EntryFills,
         EntryUnfilled, CloseFills, CloseUnfilled, MonitorReads, MonitorExits, AdoptReads,
         CloseAll, Crash, Restart, Settle

LEMMA Invariance == Spec => [](TypeOK /\ IInv)
<1>1. Init => TypeOK /\ IInv
  <2>1. Init => TypeOK
    BY DeltaBridgeAssumption
       DEF DeltaBridgeAssumption, Init, TypeOK, Nobody, Trade, Asleep, NoSweep
  <2>2. Init => IInv
    BY NamesOfPapers
       DEF Init, IInv, CustodyInv, ExitInv, Unopened, EntryOpen, SoldNamed, EndsExpired, Held,
           Overtaken, OneTradePerStrategy, PaperExitReachesTrade, Open, Nobody, Asleep
  <2> QED BY <2>1, <2>2
<1>2. TypeOK /\ IInv /\ [Next]_vars => (TypeOK /\ IInv)'
  BY TypeStep, CustodyStep, OneStep, ExitStep DEF IInv, CustodyInv
<1> QED BY <1>1, <1>2, PTL DEF Spec

\* A contract the venue holds is never forgotten: a trade on record has its product, or
\* its entry is about to be recorded, or it is one of the listed ways it gets lost.
THEOREM CustodyIsKept == Spec => []CustodyKept
<1>1. IInv => CustodyKept BY DEF IInv, CustodyInv, Held, CustodyKept
<1> QED BY <1>1, Invariance, PTL

\* A strategy has one live trade, however the goroutines of opens and closes interleave.
THEOREM OneTradeEach == Spec => []OneTradePerStrategy
<1>1. IInv => OneTradePerStrategy BY DEF IInv
<1> QED BY <1>1, Invariance, PTL

\* A paper exit finds its trade unless it overtook the opening or the process died.
THEOREM PaperExitsReachTrades == Spec => []PaperExitReachesTrade
<1>1. IInv => PaperExitReachesTrade BY DEF IInv, ExitInv
<1> QED BY <1>1, Invariance, PTL

\* A trade that has ended does not open again.
THEOREM TradesEndForGood == Spec => EndsForGood
<1>1. TypeOK /\ IInv /\ [Next]_vars => [EndStep]_vars
  BY EndsLemma DEF IInv
<1>2. [][EndStep]_vars => EndsForGood
  BY DEF EndsForGood, EndStep
<1> QED BY <1>1, <1>2, Invariance, PTL DEF Spec

-----------------------------------------------------------------------------
(* The claims of the trades.  A contract whose entry is filled but not yet   *)
(* recorded counts for its trade already, so that recording it changes no    *)
(* count; and a copy that names a product is as its trade is now, so that an *)
(* exit takes off the contracts its trade claims.                            *)

Pending(t, o) == t \in Papers /\ entering[t] = "filled" /\ OptionOf[t] = o
Paying == {t \in Names : Open(t) /\ ~Sold(t)}
Count(t, o) ==
  IF Pending(t, o) THEN 1 ELSE IF trades[t].product = o THEN trades[t].size ELSE 0

\* The contracts of o that are claimed, recorded or about to be.
Lots(o) == UNION {{t} \X (1..Count(t, o)) : t \in Paying}

Current(c) ==
  c.product # "none" /\ Open(c.t) =>
    trades[c.t].product = c.product /\ trades[c.t].size = c.size

CopyInv == \A c \in closing : Current(c)
Backed(o) == o \notin ghost => Cardinality(Lots(o)) <= held[o]
ClaimInv == CopyInv /\ \A o \in Options : Backed(o)

LEMMA NamesFinite == IsFiniteSet(Names)
<1>1. IsFiniteSet(1..MaxAdoptions)
  BY FS_Interval, DeltaBridgeAssumption DEF DeltaBridgeAssumption
<1>2. IsFiniteSet(Adopted)
  BY <1>1, FS_Product, DeltaBridgeAssumption DEF Adopted, DeltaBridgeAssumption
<1> QED BY <1>2, FS_Union, DeltaBridgeAssumption DEF Names, DeltaBridgeAssumption

LEMMA CountType ==
  ASSUME TypeOK, NEW t \in Names, NEW o
  PROVE  Count(t, o) \in Nat
BY DEF TypeOK, Count, Trade

\* A row of n contracts of one trade.
LEMMA RowSize ==
  ASSUME NEW t, NEW n \in Nat
  PROVE  IsFiniteSet({t} \X (1..n)) /\ Cardinality({t} \X (1..n)) = n
<1>1. IsFiniteSet({t}) /\ Cardinality({t}) = 1 BY FS_Singleton
<1>2. IsFiniteSet(1..n) /\ Cardinality(1..n) = n BY FS_Interval
<1>3. /\ IsFiniteSet({t} \X (1..n))
      /\ Cardinality({t} \X (1..n)) = Cardinality({t}) * Cardinality(1..n)
  BY <1>1, <1>2, FS_Product
<1> QED BY <1>1, <1>2, <1>3

LEMMA LotsFinite ==
  ASSUME TypeOK, NEW o
  PROVE  IsFiniteSet(Lots(o)) /\ Cardinality(Lots(o)) \in Nat
<1> DEFINE row == [t \in Paying |-> {t} \X (1..Count(t, o))]
           rows == {{t} \X (1..Count(t, o)) : t \in Paying}
<1>1. IsFiniteSet(Paying) BY NamesFinite, FS_Subset DEF Paying
<1>2. row \in Surjection(Paying, rows) BY DEF Surjection
<1>3. IsFiniteSet(rows) BY <1>1, <1>2, FS_Surjection
<1>4. \A r \in rows : IsFiniteSet(r) BY CountType, RowSize DEF Paying
<1>5. IsFiniteSet(UNION rows) BY <1>3, <1>4, FS_UNION
<1> QED BY <1>5, FS_CardinalityType DEF Lots

LEMMA LotsMember ==
  ASSUME NEW o
  PROVE  \A x : x \in Lots(o) <=> \E t \in Paying : x \in {t} \X (1..Count(t, o))
BY DEF Lots

\* A step after which no trade claims more, and no contract is gone.
LEMMA LotsShrink ==
  ASSUME TypeOK, TypeOK', NEW o \in Options, Backed(o),
         ghost \subseteq ghost', held'[o] >= held[o],
         \A t \in Names : t \in Paying' /\ Count(t, o)' > 0 =>
                            t \in Paying /\ Count(t, o)' = Count(t, o)
  PROVE  Backed(o)'
<1> SUFFICES ASSUME o \notin ghost' PROVE Cardinality(Lots(o))' <= held'[o] BY DEF Backed
<1>1. Lots(o)' \subseteq Lots(o)
  <2> SUFFICES ASSUME NEW x \in Lots(o)' PROVE x \in Lots(o) OBVIOUS
  <2>1. PICK t \in Paying' : x \in {t} \X (1..Count(t, o)') BY DEF Lots
  <2>2. t \in Names BY DEF Paying
  <2>3. Count(t, o)' \in Nat BY <2>2 DEF Count, TypeOK, Trade
  <2>4. Count(t, o)' > 0 BY <2>1, <2>3
  <2>5. t \in Paying /\ Count(t, o)' = Count(t, o) BY <2>2, <2>4
  <2> QED BY <2>1, <2>5, LotsMember
<1>2. IsFiniteSet(Lots(o)) /\ Cardinality(Lots(o)) \in Nat BY LotsFinite
<1>3. Cardinality(Lots(o)') <= Cardinality(Lots(o)) /\ Cardinality(Lots(o)') \in Nat
  BY <1>1, <1>2, FS_Subset, FS_CardinalityType
<1>4. Cardinality(Lots(o)) <= held[o] BY DEF Backed
<1>5. held[o] \in Nat /\ held'[o] \in Nat BY DEF TypeOK
<1> QED BY <1>2, <1>3, <1>4, <1>5

\* What a step may do to the exits without changing who pays: it adds some that are not
\* sold.
LEMMA ExitsAdded ==
  ASSUME UNCHANGED trades, closing \subseteq closing',
         \A c \in closing' : c \notin closing => c.pc = "begun"
  PROVE  \A t \in Names : t \in Paying' <=> t \in Paying
BY DEF Paying, Open, Sold

LEMMA ExitsBegun ==
  ASSUME TypeOK, NEW t \in Names, NEW by \in {"paper", "monitor"}, Exits(t, by)
  PROVE  /\ closing \subseteq closing'
         /\ \A c \in closing' : c \notin closing => c \in {Copy(t, by)}
BY DEF Exits

LEMMA CopyStep == TypeOK /\ CustodyInv /\ CopyInv /\ [Next]_vars => CopyInv'
<1> SUFFICES ASSUME TypeOK, CustodyInv, CopyInv, [Next]_vars PROVE CopyInv' OBVIOUS
<1> USE NamesOfPapers DEF CopyInv, Current, Open, process, papers, tasks, venue, history
<1>0. \A c \in closing : c \in Exit /\ c.t \in Names BY DEF TypeOK, Exit
\* A step that begins no exit and leaves the open trades that have one.
<1>a. ASSUME \A d \in closing' : \E c \in closing :
               d.t = c.t /\ d.product = c.product /\ d.size = c.size,
             \A c \in closing : c.product # "none" /\ trades'[c.t].status = "OPEN" =>
               trades'[c.t] = trades[c.t]
      PROVE  CopyInv'
  BY <1>a
<1>b. ASSUME NEW t \in Names, NEW by \in {"paper", "monitor"}, Exits(t, by), trades' = trades
      PROVE  CopyInv'
  BY <1>b, ExitsBegun DEF Copy
<1>c. ASSUME NEW t \in Names, NEW status \in {"FAILED", "CLOSED"}, Mark(t, status),
             closing' \subseteq closing
      PROVE  CopyInv'
  <2>1. \A r \in Names : trades'[r].status = "OPEN" => trades'[r] = trades[r]
    BY <1>c, MarkShape
  <2> QED BY <1>a, <1>c, <1>0, <2>1
<1>1. ASSUME NEW p \in Papers, OnOpen(p) PROVE CopyInv'
  <2>1. \A c \in closing : c.t # p BY <1>1 DEF OnOpen, CustodyInv, Unopened
  <2>2. closing' = closing BY <1>1 DEF OnOpen
  <2>3. \A t \in Names : t # p => trades'[t] = trades[t] BY <1>1 DEF OnOpen, TypeOK
  <2> QED BY <1>a, <1>0, <2>1, <2>2, <2>3
<1>2. ASSUME NEW p \in Papers, OnClose(p) PROVE CopyInv'
  BY <1>2, <1>b DEF OnClose
<1>3. ASSUME NEW p \in Papers, EntryRecorded(p) PROVE CopyInv'
  <2>1. \A c \in closing : c.t = p => c.product = "none"
    BY <1>3 DEF EntryRecorded, CustodyInv, EntryOpen
  <2>2. closing' = closing BY <1>3 DEF EntryRecorded
  <2>3. \A t \in Names : t # p => trades'[t] = trades[t] BY <1>3 DEF EntryRecorded, TypeOK
  <2> QED BY <1>a, <1>0, <2>1, <2>2, <2>3
<1>4. ASSUME NEW p \in Papers, EntryFails(p) PROVE CopyInv'
  BY <1>4, <1>c DEF EntryFails
<1>5. ASSUME NEW c \in closing, CloseFills(c) \/ CloseUnfilled(c) PROVE CopyInv'
  <2>1. Advance(c) /\ trades' = trades BY <1>5 DEF CloseFills, CloseUnfilled
  <2>2. \A d \in closing' : d \notin closing =>
          d.t = c.t /\ d.product = c.product /\ d.size = c.size
    BY <1>0, <2>1 DEF Advance, Exit
  <2> QED BY <1>a, <2>1, <2>2
<1>6. ASSUME NEW c \in closing, CloseRecorded(c) PROVE CopyInv'
  BY <1>0, <1>6, <1>c DEF CloseRecorded
<1>7. ASSUME NEW c \in closing, CloseFails(c) PROVE CopyInv'
  <2>1. CASE c.by = "all" BY <1>a, <1>7, <2>1 DEF CloseFails
  <2>2. CASE c.by # "all" BY <1>0, <1>7, <1>c, <2>2 DEF CloseFails
  <2> QED BY <2>1, <2>2
<1>8. ASSUME NEW t \in Names, MonitorExits(t) PROVE CopyInv'
  BY <1>8, <1>b DEF MonitorExits
<1>9. ASSUME NEW t \in Names, MonitorExpires(t) PROVE CopyInv'
  BY <1>9, <1>c DEF MonitorExpires
<1>10. CASE AdoptUntracked
  <2>1. \A c \in closing, o \in Options : Adoptable(o) => c.t # Slot(o)
    BY SlotIsFree DEF Adoptable, Free
  <2>2. \A c \in closing : trades'[c.t] = trades[c.t]
    BY <1>0, <1>10, <2>1 DEF AdoptUntracked
  <2>3. closing' = closing BY <1>10 DEF AdoptUntracked
  <2> QED BY <1>a, <2>2, <2>3
<1>11. CASE CloseAll
  BY <1>11 DEF CloseAll, Copy, OpenTrades
<1>12. CASE ClearHistory
  <2>1. \A t \in Names : trades'[t].status = "OPEN" => trades'[t] = trades[t]
    BY <1>12 DEF ClearHistory, Nobody
  <2>2. closing' = closing BY <1>12 DEF ClearHistory
  <2> QED BY <1>a, <1>0, <2>1, <2>2
<1>13. CASE Crash
  BY <1>13 DEF Crash
<1>14. CASE UNCHANGED <<trades, closing>>
  BY <1>a, <1>14
<1> QED
  BY <1>1, <1>2, <1>3, <1>4, <1>5, <1>6, <1>7, <1>8, <1>9, <1>10, <1>11, <1>12, <1>13, <1>14
     DEF Next, OfPaper, OfExit, Custody, vars, OnOpenSkipped, EntryFills, EntryUnfilled,
         MonitorReads, AdoptReads, Restart, Settle

\* An entry is filled: its trade, which claimed nothing, may claim the contract bought.
LEMMA BackedFill ==
  ASSUME TypeOK, EntryInv, NEW p \in Papers, EntryFills(p), NEW o \in Options, Backed(o)
  PROVE  Backed(o)'
<1> USE NamesOfPapers DEF Open, process, papers, tasks, venue, history
<1>1. SUFFICES ASSUME o \notin ghost' PROVE Cardinality(Lots(o))' <= held'[o] BY DEF Backed
<1>2. Cardinality(Lots(o)) <= held[o] /\ held[o] \in Nat
  BY <1>1 DEF Backed, EntryFills, TypeOK
<1>3. IsFiniteSet(Lots(o)) /\ Cardinality(Lots(o)) \in Nat BY LotsFinite
<1>4. \A t \in Names : (t \in Paying' <=> t \in Paying) /\ (t # p => Count(t, o)' = Count(t, o))
  BY DEF EntryFills, Paying, Sold, Count, Pending, TypeOK
<1>5. CASE o = OptionOf[p]
  <2>1. Count(p, o)' = 1
    BY <1>5 DEF EntryFills, Count, Pending, TypeOK
  <2>2. Lots(o)' \subseteq Lots(o) \cup {<<p, 1>>}
    <3> SUFFICES ASSUME NEW x \in Lots(o)' PROVE x \in Lots(o) \cup {<<p, 1>>} OBVIOUS
    <3>1. PICK t \in Paying' : x \in {t} \X (1..Count(t, o)') BY DEF Lots
    <3>2. t \in Names /\ t \in Paying BY <1>4, <3>1 DEF Paying
    <3>3. t = p => x = <<p, 1>> BY <2>1, <3>1
    <3> QED BY <1>4, <3>1, <3>2, <3>3, LotsMember
  <2>3. /\ IsFiniteSet(Lots(o) \cup {<<p, 1>>})
        /\ Cardinality(Lots(o) \cup {<<p, 1>>}) \in {Cardinality(Lots(o)), Cardinality(Lots(o)) + 1}
    BY <1>3, FS_AddElement
  <2>4. Cardinality(Lots(o)') <= Cardinality(Lots(o) \cup {<<p, 1>>})
    BY <2>2, <2>3, FS_Subset
  <2>5. Cardinality(Lots(o)') \in Nat BY <2>2, <2>3, FS_Subset, FS_CardinalityType
  <2>6. held'[o] = held[o] + 1 BY <1>5 DEF EntryFills, TypeOK
  <2> QED BY <1>2, <1>3, <2>3, <2>4, <2>5, <2>6
<1>6. CASE o # OptionOf[p]
  <2>1. Count(p, o)' = Count(p, o) BY <1>6 DEF EntryFills, Count, Pending
  <2>2. Lots(o)' = Lots(o)
    <3>1. Paying' = Paying BY <1>4 DEF Paying
    <3>2. \A t \in Paying : Count(t, o)' = Count(t, o) BY <1>4, <2>1 DEF Paying
    <3> QED BY <3>1, <3>2 DEF Lots
  <2>3. held'[o] = held[o] BY <1>6 DEF EntryFills, TypeOK
  <2> QED BY <1>2, <2>2, <2>3
<1> QED BY <1>5, <1>6

\* Who an exit is of, once it names a product.
LEMMA ExitOf ==
  ASSUME TypeOK, EntryInv, CopyInv, NEW c \in closing, c.product # "none", NEW o \in Options
  PROVE  /\ c.t \in Names /\ c.product \in Options /\ c.size \in Nat
         /\ Open(c.t) => Count(c.t, o) = IF o = c.product THEN c.size ELSE 0
<1>1. c.t \in Names /\ c.product \in Options /\ c.size \in Nat BY DEF TypeOK, Exit
<1>2. ~Pending(c.t, o) BY DEF Pending, EntryInv, EntryOpen
<1>3. Open(c.t) => trades[c.t].product = c.product /\ trades[c.t].size = c.size
  BY DEF CopyInv, Current
<1> QED BY <1>1, <1>2, <1>3 DEF Count

\* An exit sells what its trade claims, which then claims nothing.
LEMMA BackedSale ==
  ASSUME TypeOK, TypeOK', EntryInv, CopyInv, NEW c \in closing, CloseFills(c),
         NEW o \in Options, Backed(o)
  PROVE  Backed(o)'
<1> USE DEF Open, process, papers, tasks, venue, history
<1>1. c.product # "none" /\ Advance(c) /\ UNCHANGED <<trades, entering>> BY DEF CloseFills
<1>2. c \in Exit /\ c.t \in Names /\ c.product \in Options /\ c.size \in Nat
  BY <1>1, ExitOf DEF TypeOK
<1>3. /\ c.t \notin Paying'
      /\ \A t \in Names : t \in Paying' => t \in Paying
      /\ \A t \in Names : Count(t, o)' = Count(t, o)
  <2>1. \A d \in closing' : d # [c EXCEPT !.pc = "sold"] => d \in closing BY <1>1 DEF Advance
  <2>2. [c EXCEPT !.pc = "sold"] \in closing' /\ [c EXCEPT !.pc = "sold"].t = c.t
        /\ [c EXCEPT !.pc = "sold"].pc = "sold"
    BY <1>1, <1>2 DEF Advance, Exit
  <2>3. c.pc = "begun" BY DEF CloseFills
  <2>4. \A t \in Names : Sold(t) => Sold(t)' BY <1>1, <2>3 DEF Advance, Sold
  <2>5. Sold(c.t)' BY <2>2 DEF Sold
  <2> QED BY <1>1, <2>4, <2>5 DEF Paying, Count, Pending
<1>4. CASE o # c.product \/ Contested(c)
  <2>1. o = c.product => o \in ghost' BY <1>4 DEF CloseFills
  <2>2. o # c.product => held'[o] = held[o] BY <1>2 DEF CloseFills, TypeOK
  <2>3. ghost \subseteq ghost' BY DEF CloseFills
  <2>4. CASE o = c.product BY <2>1, <2>4 DEF Backed
  <2>5. CASE o # c.product
    <3>1. held'[o] >= held[o] BY <2>2, <2>5 DEF TypeOK
    <3> QED BY <1>3, <2>3, <3>1, LotsShrink
  <2> QED BY <2>4, <2>5
<1>5. CASE o = c.product /\ ~Contested(c)
  <2> SUFFICES ASSUME o \notin ghost' PROVE Cardinality(Lots(o))' <= held'[o] BY DEF Backed
  <2> DEFINE row == {c.t} \X (1..c.size)
  <2>1. c.t \in Paying /\ Count(c.t, o) = c.size
    BY <1>1, <1>2, <1>5, ExitOf DEF Contested, Paying
  <2>2. row \subseteq Lots(o) BY <2>1, LotsMember
  <2>3. Lots(o)' \subseteq Lots(o) \ row
    <3> SUFFICES ASSUME NEW x \in Lots(o)' PROVE x \in Lots(o) /\ x \notin row OBVIOUS
    <3>1. PICK t \in Paying' : x \in {t} \X (1..Count(t, o)') BY DEF Lots
    <3>2. t \in Names BY <3>1 DEF Paying
    <3>3. t # c.t /\ t \in Paying /\ Count(t, o)' = Count(t, o) BY <1>3, <3>1, <3>2
    <3> QED BY <3>1, <3>3, LotsMember
  <2>4. IsFiniteSet(Lots(o)) /\ Cardinality(Lots(o)) \in Nat BY LotsFinite
  <2>5. Cardinality(row) = c.size BY <1>2, RowSize
  <2>6. Lots(o) \cap row = row BY <2>2
  <2>7. /\ IsFiniteSet(Lots(o) \ row)
        /\ Cardinality(Lots(o) \ row) = Cardinality(Lots(o)) - c.size
    <3>1. /\ IsFiniteSet(Lots(o) \ row)
          /\ Cardinality(Lots(o) \ row) = Cardinality(Lots(o)) - Cardinality(Lots(o) \cap row)
      BY <2>4, FS_Difference
    <3> QED BY <2>5, <2>6, <3>1
  <2>8. Cardinality(Lots(o)') <= Cardinality(Lots(o) \ row) /\ Cardinality(Lots(o)') \in Nat
    BY <2>3, <2>7, FS_Subset, FS_CardinalityType
  <2>9. Cardinality(Lots(o)) <= held[o] /\ held[o] \in Nat BY DEF Backed, CloseFills, TypeOK
  <2>10. held'[o] = IF c.size > held[o] THEN 0 ELSE held[o] - c.size
    BY <1>2, <1>5 DEF CloseFills, Left, TypeOK
  <2>11. Cardinality(row) <= Cardinality(Lots(o)) BY <2>2, <2>4, FS_Subset
  <2> HIDE DEF row
  <2> QED BY <1>2, <2>4, <2>5, <2>7, <2>8, <2>9, <2>10, <2>11
<1> QED BY <1>4, <1>5

\* The sweep adopts what it read: as many contracts as there still are, of a product
\* that no open trade has and no entry is about to record.
LEMMA BackedAdoption ==
  ASSUME TypeOK, TypeOK', AdoptUntracked, NEW o \in Options, Backed(o)
  PROVE  Backed(o)'
<1> USE DEF Open, process, papers, tasks, venue, history
<1>1. UNCHANGED <<closing, entering, held>> /\ ghost \subseteq ghost' BY DEF AdoptUntracked
<1>2. \A x \in Options : Adoptable(x) => Slot(x) \in Names /\ Slot(x)[1] = x /\ Slot(x) \notin Papers
  BY SlotIsFree, NamesOfPapers DEF Adoptable, Names
<1>3. \A t \in Names :
        \/ trades'[t] = trades[t]
        \/ \E x \in Options :
             /\ Adoptable(x) /\ t = Slot(x) /\ t \notin Papers
             /\ trades'[t] = [status |-> "OPEN", product |-> x, size |-> sweep.sizes[x]]
  BY <1>2 DEF AdoptUntracked
<1>4. CASE ~Adoptable(o)
  <2>1. \A t \in Names : t \in Paying' /\ Count(t, o)' > 0 =>
                           t \in Paying /\ Count(t, o)' = Count(t, o)
    <3> SUFFICES ASSUME NEW t \in Names, t \in Paying', Count(t, o)' > 0
                 PROVE  t \in Paying /\ Count(t, o)' = Count(t, o)
      OBVIOUS
    <3>1. CASE trades'[t] = trades[t] BY <1>1, <3>1 DEF Paying, Sold, Count, Pending
    <3>2. CASE trades'[t] # trades[t]
      <4>0. PICK x \in Options :
              /\ Adoptable(x) /\ t = Slot(x) /\ t \notin Papers
              /\ trades'[t] = [status |-> "OPEN", product |-> x, size |-> sweep.sizes[x]]
        BY <1>3, <3>2
      <4>1. t \notin Papers /\ trades'[t].product # o BY <1>4, <4>0
      <4>2. Count(t, o)' = 0 BY <4>1 DEF Count, Pending
      <4> QED BY <4>2
    <3> QED BY <3>1, <3>2
  <2>2. held'[o] >= held[o] BY <1>1 DEF TypeOK
  <2> QED BY <1>1, <2>1, <2>2, LotsShrink
<1>5. CASE Adoptable(o)
  <2> SUFFICES ASSUME o \notin ghost' PROVE Cardinality(Lots(o))' <= held'[o] BY DEF Backed
  <2>1. ~Stale(o) /\ ~Tracked(o) /\ sweep.sizes[o] = held[o] /\ held[o] \in Nat
    BY <1>5 DEF AdoptUntracked, Adoptable, Stale, TypeOK
  <2>2. \A t \in Names : ~Pending(t, o)' BY <1>1, <2>1 DEF Pending, Stale
  <2>3. \A t \in Names : trades[t].status = "OPEN" => trades[t].product # o
    BY <2>1 DEF Tracked, OpenTrades
  <2>4. Lots(o)' \subseteq {Slot(o)} \X (1..held[o])
    <3> SUFFICES ASSUME NEW x \in Lots(o)' PROVE x \in {Slot(o)} \X (1..held[o]) OBVIOUS
    <3>1. PICK t \in Paying' : x \in {t} \X (1..Count(t, o)') BY DEF Lots
    <3>2. t \in Names /\ trades'[t].status = "OPEN" BY <3>1 DEF Paying
    <3>3. trades'[t].product = o /\ Count(t, o)' = trades'[t].size
      BY <2>2, <3>1, <3>2 DEF Count
    <3>4. PICK y \in Options :
            /\ Adoptable(y) /\ t = Slot(y) /\ t \notin Papers
            /\ trades'[t] = [status |-> "OPEN", product |-> y, size |-> sweep.sizes[y]]
      BY <1>3, <2>3, <3>2, <3>3
    <3>5. y = o BY <3>3, <3>4
    <3>6. t = Slot(o) /\ trades'[t].size = held[o] BY <2>1, <3>4, <3>5
    <3> QED BY <3>1, <3>3, <3>6
  <2>5. /\ IsFiniteSet({Slot(o)} \X (1..held[o]))
        /\ Cardinality({Slot(o)} \X (1..held[o])) = held[o]
    BY <2>1, RowSize
  <2>6. Cardinality(Lots(o)') <= held[o] BY <2>4, <2>5, FS_Subset
  <2> QED BY <1>1, <2>6
<1> QED BY <1>4, <1>5

\* A crash loses the exits and the entries under way, and may fill some of the latter.
LEMMA BackedCrash ==
  ASSUME TypeOK, TypeOK', CustodyInv, CopyInv, Crash, NEW o \in Options, Backed(o)
  PROVE  Backed(o)'
<1> USE NamesOfPapers DEF Open, process, papers, tasks, venue, history
<1>1. EntryInv BY DEF CustodyInv, EntryInv
<1>2. trades' = trades /\ ghost \subseteq ghost' /\ closing' = {} BY DEF Crash
<1>3. CASE o \in ghost' BY <1>3 DEF Backed
<1>4. CASE o \notin ghost'
  <2>1. \A c \in closing : c.pc = "sold" => c.product # o BY <1>4 DEF Crash
  <2>2. \A t \in Names : ~Pending(t, o)' BY DEF Crash, Pending
  <2>3. held'[o] >= held[o]
    <3> PICK S \in SUBSET Sent :
          held' = [x \in Options |-> held[x] + Cardinality({p \in S : OptionOf[p] = x})]
      BY DEF Crash
    <3>1. S \in SUBSET Papers BY DEF Sent
    <3>2. Cardinality({p \in S : OptionOf[p] = o}) \in Nat BY <3>1, FilledType
    <3>3. held[o] \in Nat /\ held'[o] = held[o] + Cardinality({p \in S : OptionOf[p] = o})
      BY DEF TypeOK
    <3> QED BY <3>2, <3>3
  <2>4. ASSUME NEW t \in Names, t \in Paying', Count(t, o)' > 0
        PROVE  t \in Paying /\ Count(t, o)' = Count(t, o)
    <3>1. Open(t) /\ trades[t].product = o /\ o # "none"
      BY <1>2, <2>2, <2>4, DeltaBridgeAssumption DEF Paying, Count, DeltaBridgeAssumption
    <3>2. ~Pending(t, o) BY <3>1 DEF Pending, EntryInv, EntryOpen, CustodyInv
    <3>3. ~Sold(t)
      <4> SUFFICES ASSUME NEW c \in closing, c.t = t, c.pc = "sold" PROVE FALSE BY DEF Sold
      <4>1. c.product # "none" BY DEF CustodyInv, SoldNamed
      <4>2. trades[t].product = c.product BY <3>1, <4>1 DEF CopyInv, Current
      <4> QED BY <2>1, <3>1, <4>2
    <3> QED BY <1>2, <2>2, <3>1, <3>2, <3>3 DEF Paying, Count
  <2> QED BY <1>2, <2>3, <2>4, LotsShrink
<1> QED BY <1>3, <1>4

LEMMA BackedStep ==
  ASSUME TypeOK, TypeOK', CustodyInv, CopyInv, [Next]_vars, NEW o \in Options, Backed(o)
  PROVE  Backed(o)'
<1> USE NamesOfPapers DEF Open, process, papers, tasks, venue, history
<1>0. EntryInv /\ o # "none" /\ held[o] \in Nat
  BY DeltaBridgeAssumption DEF CustodyInv, EntryInv, DeltaBridgeAssumption, TypeOK
<1>o. \A c \in closing : c \in Exit /\ c.t \in Names BY DEF TypeOK, Exit
\* The steps that change no trade and sell nothing.
<1>a. ASSUME UNCHANGED <<trades, entering, held>>, ghost \subseteq ghost',
             \A t \in Names : Sold(t) => Sold(t)'
      PROVE  Backed(o)'
  <2>1. \A t \in Names : t \in Paying' => t \in Paying BY <1>a DEF Paying
  <2>2. \A t \in Names : Count(t, o)' = Count(t, o) BY <1>a DEF Count, Pending
  <2>3. held'[o] >= held[o] BY <1>0, <1>a
  <2> QED BY <1>a, <2>1, <2>2, <2>3, LotsShrink
\* The steps that end one trade.
<1>b. ASSUME NEW t \in Names, NEW status \in {"FAILED", "CLOSED"}, Mark(t, status),
             ghost \subseteq ghost', UNCHANGED held,
             \A r \in Names : r # t /\ r \in Papers => entering'[r] = entering[r],
             \A r \in Names : r # t /\ Sold(r) => Sold(r)'
      PROVE  Backed(o)'
  <2>1. t \notin Paying' BY <1>b, MarkShape DEF Paying
  <2>2. \A r \in Names : r # t => trades'[r] = trades[r] BY <1>b, MarkShape
  <2>3. \A r \in Names : r # t /\ r \in Paying' => r \in Paying BY <1>b, <2>2 DEF Paying
  <2>4. \A r \in Names : r # t => Count(r, o)' = Count(r, o) BY <1>b, <2>2 DEF Count, Pending
  <2>5. held'[o] >= held[o] BY <1>0, <1>b
  <2>6. \A r \in Names : r \in Paying' => r \in Paying /\ Count(r, o)' = Count(r, o)
    BY <2>1, <2>3, <2>4
  <2> QED BY <1>b, <2>5, <2>6, LotsShrink
<1>c. ASSUME NEW t \in Names, NEW by \in {"paper", "monitor"}, Exits(t, by),
             UNCHANGED <<trades, entering, held, ghost>>
      PROVE  Backed(o)'
  <2>1. \A r \in Names : Sold(r) => Sold(r)' BY <1>c, ExitsBegun DEF Sold
  <2> QED BY <1>a, <1>c, <2>1
<1>1. ASSUME NEW p \in Papers, OnOpen(p) PROVE Backed(o)'
  <2>1. \A t \in Names : t # p => trades'[t] = trades[t] BY <1>1 DEF OnOpen, TypeOK
  <2>2. Count(p, o)' = 0 BY <1>0, <1>1 DEF OnOpen, Count, Pending, TypeOK
  <2>3. \A t \in Names : t # p => Count(t, o)' = Count(t, o)
    BY <1>1, <2>1 DEF OnOpen, Count, Pending, TypeOK
  <2>4. UNCHANGED <<closing, held, ghost>> BY <1>1 DEF OnOpen
  <2>5. \A t \in Names : t # p /\ t \in Paying' => t \in Paying
    BY <2>1, <2>4 DEF Paying, Sold
  <2>6. held'[o] >= held[o] BY <1>0, <2>4
  <2>7. \A t \in Names : t \in Paying' /\ Count(t, o)' > 0 =>
                           t \in Paying /\ Count(t, o)' = Count(t, o)
    BY <2>2, <2>3, <2>5
  <2> QED BY <2>4, <2>6, <2>7, LotsShrink
<1>2. ASSUME NEW p \in Papers, OnClose(p) PROVE Backed(o)'
  BY <1>2, <1>c DEF OnClose
<1>3. ASSUME NEW p \in Papers, EntryFills(p) PROVE Backed(o)'
  BY <1>0, <1>3, BackedFill
<1>4. ASSUME NEW p \in Papers, EntryUnfilled(p) PROVE Backed(o)'
  <2>1. CASE o = OptionOf[p] BY <1>4, <2>1 DEF Backed, EntryUnfilled
  <2>2. CASE o # OptionOf[p]
    <3>1. UNCHANGED <<trades, closing, held>> /\ ghost \subseteq ghost' BY <1>4 DEF EntryUnfilled
    <3>2. \A t \in Names : Count(t, o)' = Count(t, o)
      BY <1>4, <2>2 DEF EntryUnfilled, Count, Pending, TypeOK
    <3>3. \A t \in Names : t \in Paying' => t \in Paying BY <3>1 DEF Paying, Sold
    <3>4. held'[o] >= held[o] BY <1>0, <3>1
    <3> QED BY <3>1, <3>2, <3>3, <3>4, LotsShrink
  <2> QED BY <2>1, <2>2
<1>5. ASSUME NEW p \in Papers, EntryRecorded(p) PROVE Backed(o)'
  <2>1. UNCHANGED <<closing, held, ghost>> BY <1>5 DEF EntryRecorded
  <2>2. \A t \in Names : t # p => trades'[t] = trades[t] BY <1>5 DEF EntryRecorded, TypeOK
  <2>3. \A t \in Names : t # p => Count(t, o)' = Count(t, o)
    BY <1>5, <2>2 DEF EntryRecorded, Count, Pending, TypeOK
  <2>4. entering[p] = "filled" /\ entering'[p] = "no" BY <1>5 DEF EntryRecorded, TypeOK
  <2>5. p \in Names /\ trades[p].product = "none" /\ trades[p].status # "CLOSED"
    BY <1>0, <2>4 DEF EntryInv, EntryOpen
  <2>6. CASE Open(p)
    <3>1. trades'[p] = Fill(p) BY <1>5, <2>5, <2>6 DEF EntryRecorded, Recordable, TypeOK
    <3>2. Count(p, o)' = Count(p, o)
      BY <1>0, <2>4, <2>5, <3>1 DEF Count, Pending, Fill
    <3>3. \A t \in Names : t \in Paying' => t \in Paying
      BY <2>1, <2>2, <2>6 DEF Paying, Sold
    <3>4. held'[o] >= held[o] BY <1>0, <2>1
    <3> QED BY <2>1, <2>3, <3>2, <3>3, <3>4, LotsShrink
  <2>7. CASE ~Open(p)
    <3>1. trades' = trades BY <1>5, <2>5, <2>7 DEF EntryRecorded, Recordable
    <3>2. \A t \in Names : t \in Paying' => t \in Paying /\ t # p
      BY <2>1, <2>7, <3>1 DEF Paying, Sold
    <3>3. held'[o] >= held[o] BY <1>0, <2>1
    <3>4. \A t \in Names : t \in Paying' => t \in Paying /\ Count(t, o)' = Count(t, o)
      BY <2>3, <3>2
    <3> QED BY <2>1, <3>3, <3>4, LotsShrink
  <2> QED BY <2>6, <2>7
<1>6. ASSUME NEW p \in Papers, EntryFails(p) PROVE Backed(o)'
  <2>1. UNCHANGED <<closing, held, ghost>> /\ Mark(p, "FAILED") BY <1>6 DEF EntryFails
  <2>2. \A r \in Papers : r # p => entering'[r] = entering[r] BY <1>6 DEF EntryFails, TypeOK
  <2> QED BY <1>b, <2>1, <2>2 DEF Sold
<1>7. ASSUME NEW c \in closing, CloseFills(c) PROVE Backed(o)'
  BY <1>0, <1>7, BackedSale
<1>8. ASSUME NEW c \in closing, CloseUnfilled(c) PROVE Backed(o)'
  <2>1. \A t \in Names : Sold(t) => Sold(t)'
    BY <1>8 DEF CloseUnfilled, Advance, Sold
  <2> QED BY <1>8, <1>a, <2>1 DEF CloseUnfilled
<1>9. ASSUME NEW c \in closing, CloseRecorded(c) PROVE Backed(o)'
  <2>1. UNCHANGED <<entering, held, ghost>> /\ Mark(c.t, "CLOSED") /\ closing' = closing \ {c}
    BY <1>9 DEF CloseRecorded
  <2>2. \A r \in Names : r # c.t /\ Sold(r) => Sold(r)' BY <2>1 DEF Sold
  <2> QED BY <1>b, <1>o, <2>1, <2>2
<1>10. ASSUME NEW c \in closing, CloseFails(c) PROVE Backed(o)'
  <2>1. UNCHANGED <<entering, held>> /\ ghost \subseteq ghost' /\ closing' = closing \ {c}
    BY <1>10 DEF CloseFails
  <2>2. \A r \in Names : r # c.t /\ Sold(r) => Sold(r)' BY <2>1 DEF Sold
  <2>3. CASE c.by # "all"
    <3>1. Mark(c.t, "FAILED") BY <1>10, <2>3 DEF CloseFails
    <3> QED BY <1>b, <1>o, <2>1, <2>2, <3>1
  <2>4. CASE c.by = "all" /\ c.pc # "sold"
    <3>1. \A r \in Names : Sold(r) => Sold(r)' BY <2>1, <2>4 DEF Sold
    <3> QED BY <1>10, <1>a, <2>1, <2>4, <3>1 DEF CloseFails
  <2>5. CASE c.by = "all" /\ c.pc = "sold"
    <3>1. CASE o = c.product BY <1>10, <2>5, <3>1 DEF CloseFails, Backed
    <3>2. CASE o # c.product
      <4>1. c.product # "none" BY <2>5 DEF CustodyInv, SoldNamed
      <4>2. Open(c.t) => Count(c.t, o) = 0 BY <1>0, <3>2, <4>1, ExitOf
      <4>3. trades' = trades BY <1>10, <2>5 DEF CloseFails
      <4>4. \A t \in Names : Count(t, o)' = Count(t, o) BY <2>1, <4>3 DEF Count, Pending
      <4>5. \A t \in Names : t # c.t /\ t \in Paying' => t \in Paying
        BY <2>2, <4>3 DEF Paying
      <4>6. c.t \in Paying' => Count(c.t, o)' = 0 BY <1>o, <4>2, <4>3, <4>4 DEF Paying
      <4>7. held'[o] >= held[o] BY <1>0, <2>1
      <4>8. \A t \in Names : t \in Paying' /\ Count(t, o)' > 0 =>
                               t \in Paying /\ Count(t, o)' = Count(t, o)
        BY <4>4, <4>5, <4>6
      <4> QED BY <2>1, <4>7, <4>8, LotsShrink
    <3> QED BY <3>1, <3>2
  <2> QED BY <2>3, <2>4, <2>5
<1>11. ASSUME NEW t \in Names, MonitorExits(t) PROVE Backed(o)'
  BY <1>11, <1>c DEF MonitorExits
<1>12. ASSUME NEW t \in Names, MonitorExpires(t) PROVE Backed(o)'
  <2>1. UNCHANGED <<closing, entering, held, ghost>> /\ Mark(t, "CLOSED")
    BY <1>12 DEF MonitorExpires
  <2> QED BY <1>b, <2>1 DEF Sold
<1>13. CASE AdoptUntracked
  BY <1>13, BackedAdoption
<1>14. CASE CloseAll
  <2>1. \A r \in Names : Sold(r) => Sold(r)' BY <1>14 DEF CloseAll, Sold
  <2> QED BY <1>14, <1>a, <2>1 DEF CloseAll
<1>15. CASE ClearHistory
  <2>1. UNCHANGED <<closing, entering, held, ghost>> BY <1>15 DEF ClearHistory
  <2>2. \A t \in Names : t \in Paying' => t \in Paying /\ trades'[t] = trades[t]
    BY <1>15, <2>1 DEF ClearHistory, Paying, Sold, Nobody
  <2>3. \A t \in Names : t \in Paying' => t \in Paying /\ Count(t, o)' = Count(t, o)
    BY <2>1, <2>2 DEF Count, Pending
  <2>4. held'[o] >= held[o] BY <1>0, <2>1
  <2> QED BY <2>1, <2>3, <2>4, LotsShrink
<1>16. ASSUME NEW x \in Options, Settle(x) PROVE Backed(o)'
  <2>1. CASE o = x BY <1>16, <2>1 DEF Settle, Backed
  <2>2. CASE o # x
    <3>1. UNCHANGED <<trades, entering, closing>> /\ ghost \subseteq ghost' BY <1>16 DEF Settle
    <3>2. held'[o] >= held[o] BY <1>0, <1>16, <2>2 DEF Settle, TypeOK
    <3>3. \A t \in Names : t \in Paying' => t \in Paying /\ Count(t, o)' = Count(t, o)
      BY <3>1 DEF Paying, Sold, Count, Pending
    <3> QED BY <3>1, <3>2, <3>3, LotsShrink
  <2> QED BY <2>1, <2>2
<1>17. CASE Crash
  BY <1>17, BackedCrash
<1>18. CASE UNCHANGED <<trades, entering, closing, held, ghost>>
  BY <1>18, <1>a DEF Sold
<1> QED
  BY <1>1, <1>2, <1>3, <1>4, <1>5, <1>6, <1>7, <1>8, <1>9, <1>10, <1>11, <1>12, <1>13, <1>14,
     <1>15, <1>16, <1>17, <1>18
     DEF Next, OfPaper, OfExit, Custody, vars, OnOpenSkipped, MonitorReads, AdoptReads, Restart

LEMMA ClaimsWithinLots ==
  ASSUME TypeOK, EntryInv, NEW o \in Options
  PROVE  Cardinality(Claims(o)) \in Nat /\ Cardinality(Claims(o)) <= Cardinality(Lots(o))
<1>1. ASSUME NEW t \in OpenTrades, trades[t].product = o, ~Sold(t)
      PROVE  t \in Paying /\ Count(t, o) = trades[t].size
  <2>1. ~Pending(t, o)
    BY <1>1, DeltaBridgeAssumption DEF Pending, EntryInv, EntryOpen, DeltaBridgeAssumption
  <2> QED BY <1>1, <2>1 DEF Paying, OpenTrades, Count
<1>2. Claims(o) \subseteq Lots(o)
  <2> SUFFICES ASSUME NEW x \in Claims(o) PROVE x \in Lots(o) OBVIOUS
  <2>1. PICK t \in OpenTrades :
          trades[t].product = o /\ ~Sold(t) /\ x \in {t} \X (1..trades[t].size)
    BY DEF Claims
  <2>2. t \in Paying /\ Count(t, o) = trades[t].size BY <1>1, <2>1
  <2> QED BY <2>1, <2>2, LotsMember
<1> QED BY <1>2, LotsFinite, FS_Subset, FS_CardinalityType

\* The open trades claim no more contracts of a product than the venue holds, except by
\* the listed accidents; also while entries, exits and sweeps are under way.
THEOREM ClaimsReal == Spec => []ClaimsAreReal
<1>1. Init => ClaimInv
  <2>1. Init => CopyInv BY DEF Init, CopyInv
  <2>2. ASSUME Init, NEW o \in Options PROVE Backed(o)
    <3>1. Paying = {} BY <2>2 DEF Init, Paying, Open, Nobody
    <3>2. Lots(o) = {} BY <3>1, LotsMember
    <3>3. Cardinality(Lots(o)) = 0 BY <3>2, FS_EmptySet
    <3> QED BY <2>2, <3>3 DEF Init, Backed
  <2> QED BY <2>1, <2>2 DEF ClaimInv
<1>2. TypeOK /\ TypeOK' /\ IInv /\ ClaimInv /\ [Next]_vars => ClaimInv'
  BY CopyStep, BackedStep DEF ClaimInv, IInv
<1>3. TypeOK /\ IInv /\ ClaimInv => ClaimsAreReal
  <2> SUFFICES ASSUME TypeOK, IInv, ClaimInv, NEW o \in Options, o \notin ghost
               PROVE  ~(Cardinality(Claims(o)) > held[o])
    BY DEF ClaimsAreReal
  <2>1. EntryInv BY DEF IInv, CustodyInv, EntryInv
  <2>2. Cardinality(Claims(o)) \in Nat /\ Cardinality(Claims(o)) <= Cardinality(Lots(o))
    BY <2>1, ClaimsWithinLots
  <2>3. Cardinality(Lots(o)) \in Nat BY LotsFinite
  <2>4. Cardinality(Lots(o)) <= held[o] /\ held[o] \in Nat BY DEF ClaimInv, Backed, TypeOK
  <2> QED BY <2>2, <2>3, <2>4
<1> QED BY <1>1, <1>2, <1>3, Invariance, PTL DEF Spec

=============================================================================
