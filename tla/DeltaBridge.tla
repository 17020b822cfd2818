----------------------------- MODULE DeltaBridge -----------------------------
(***************************************************************************)
(* The live bridge of option buying: internal/delta/live_bridge.go and     *)
(* live_position_custody.go, with the two handlers that                    *)
(* internal/trading/institutional_request.go wires into it and the hooks   *)
(* cmd/antigravity/main.go takes from the paper options engine.            *)
(*                                                                         *)
(* Every paper open and paper close calls the bridge from a goroutine of   *)
(* its own, every order leaves from another one, and next to them run the  *)
(* 30-second custody monitor, the adoption sweep and CLOSE-ALL.  A trade   *)
(* stays OPEN from before its entry is sent until after its exit is        *)
(* answered, and an error, whatever became of the order, makes it FAILED.  *)
(*                                                                         *)
(* Each change of the trades is saved under the bridge's mutex: what a     *)
(* crash leaves is the trades.  Left out are: that a write may fail; that  *)
(* the 501st trade pushes out the oldest; openByPaperID, an index that a   *)
(* scan of the trades stands in for; and the switch of the bridge and the  *)
(* kill switch, which refuse what may be refused for other reasons too.    *)
(***************************************************************************)
EXTENDS Integers, FiniteSets

CONSTANTS
  Papers,       \* positions of the paper engine, each opened once
  Options,      \* option products at the venue
  Strategies,
  StrategyOf, OptionOf,  \* of each paper position
  MaxAdoptions, \* bound: adopted trades of one product on record at a time
  MaxExits,     \* bound: exits under way at a time
  MaxCrashes    \* bound

Adopted == Options \X (1..MaxAdoptions)
Names == Papers \cup Adopted

ASSUME DeltaBridgeAssumption ==
  /\ IsFiniteSet(Papers) /\ IsFiniteSet(Options)
  /\ StrategyOf \in [Papers -> Strategies] /\ OptionOf \in [Papers -> Options]
  /\ MaxAdoptions \in Nat /\ MaxExits \in Nat /\ MaxCrashes \in Nat
  /\ "none" \notin Options /\ Papers \cap Adopted = {}

VARIABLES
  up, crashes,
  opened, stopped,  \* the paper positions OnOpen, and OnClose, has run for
  trades,    \* each live trade: its status, ProductID and Contracts
  entering,  \* where the goroutine of an entry is
  closing,   \* the exits under way, each with its copy of the trade
  monitor,   \* monitorPositions: the trades it is to exit, and those that have expired
  sweep,     \* AdoptUntrackedPositions: where it is and the sizes it read
  held,      \* at the venue: the contracts of each product
  expired,   \* the products that have settled
  lost,      \* history: products of which a contract may be unknown, see CustodyKept
  ghost,     \* history: products of which a trade may have no contract
  missed     \* history: paper exits that never reached their trade

process == <<up, crashes>>
papers == <<opened, stopped>>
tasks == <<entering, closing, monitor, sweep>>
venue == <<held, expired>>
history == <<lost, ghost, missed>>
vars == <<process, papers, trades, tasks, venue, history>>

Nobody == [status |-> "none", product |-> "none", size |-> 0]
Asleep == [exits |-> {}, ends |-> {}]
NoSweep == [pc |-> "idle", sizes |-> [o \in Options |-> 0]]

Trade == [status : {"none", "OPEN", "FAILED", "CLOSED"},
          product : Options \cup {"none"}, size : Nat]
Exit == [t : Names, by : {"paper", "monitor", "all"}, product : Options \cup {"none"},
         size : Nat, pc : {"begun", "sold"}]

TypeOK ==
  /\ up \in BOOLEAN /\ crashes \in 0..MaxCrashes
  /\ opened \subseteq Papers /\ stopped \subseteq Papers
  /\ trades \in [Names -> Trade]
  /\ entering \in [Papers -> {"no", "sent", "filled"}]
  /\ closing \subseteq Exit
  /\ monitor \in [exits : SUBSET Names, ends : SUBSET Names]
  /\ sweep \in [pc : {"idle", "read"}, sizes : [Options -> Nat]]
  /\ held \in [Options -> Nat] /\ expired \subseteq Options
  /\ lost \subseteq Options /\ ghost \subseteq Options /\ missed \subseteq Papers

-----------------------------------------------------------------------------
(* The trades *)

Open(t) == trades[t].status = "OPEN"
OpenTrades == {t \in Names : Open(t)}

\* A product that some trade on record has; one that an open trade has.
Known(o) == \E t \in Names : trades[t].product = o
Tracked(o) == \E t \in OpenTrades : trades[t].product = o

\* updateTrade: a trade that ClearHistory has removed is not found.
Mark(t, status) ==
  trades' = IF trades[t] = Nobody THEN trades ELSE [trades EXCEPT ![t].status = status]

Entering(t) == t \in Papers /\ entering[t] # "no"

-----------------------------------------------------------------------------
(* Entry: OnOpen and the goroutine it starts *)

\* Mutant of Vacant: a strategy may hold a second live trade.
VacantAlways(s) == TRUE

\* openLiveTradeForStrategyLocked; an adopted trade has no strategy.
Vacant(s) == \A r \in Papers : Open(r) => StrategyOf[r] # s

\* The switch, the allow-list, the eligibility, the fees and the expiry let it pass.
OnOpen(p) ==
  /\ up /\ p \notin opened /\ OptionOf[p] \notin expired /\ Vacant(StrategyOf[p])
  /\ opened' = opened \cup {p}
  /\ trades' = [trades EXCEPT ![p] = [status |-> "OPEN", product |-> "none", size |-> 0]]
  /\ entering' = [entering EXCEPT ![p] = "sent"]
  /\ UNCHANGED <<process, stopped, closing, monitor, sweep, venue, history>>

\* One of them does not, or the strategy has an open trade.
OnOpenSkipped(p) ==
  /\ up /\ p \notin opened
  /\ opened' = opened \cup {p}
  /\ UNCHANGED <<process, stopped, trades, tasks, venue, history>>

EntryFills(p) ==
  /\ entering[p] = "sent"
  /\ entering' = [entering EXCEPT ![p] = "filled"]
  /\ held' = [held EXCEPT ![OptionOf[p]] = @ + 1]
  /\ UNCHANGED <<process, papers, trades, closing, monitor, sweep, expired, history>>

\* The client does not read the order's state: accepted counts as filled.
EntryUnfilled(p) ==
  /\ entering[p] = "sent"
  /\ entering' = [entering EXCEPT ![p] = "filled"]
  /\ ghost' = ghost \cup {OptionOf[p]}
  /\ UNCHANGED <<process, papers, trades, closing, monitor, sweep, venue, lost, missed>>

\* Mutant of Recordable: a rejected trade is stamped OPEN by its late fill.
RecordableAlways(t) == trades[t] # Nobody

\* UpdateTradeAfterFill leaves a FAILED trade alone.
Recordable(t) == trades[t].status \in {"OPEN", "CLOSED"}

\* Mutant of Fill: the product is not recorded.
FillAnonymous(p) == [status |-> "OPEN", product |-> "none", size |-> 1]

Fill(p) == [status |-> "OPEN", product |-> OptionOf[p], size |-> 1]

EntryRecorded(p) ==
  /\ entering[p] = "filled"
  /\ entering' = [entering EXCEPT ![p] = "no"]
  /\ trades' = IF Recordable(p) THEN [trades EXCEPT ![p] = Fill(p)] ELSE trades
  /\ UNCHANGED <<process, papers, closing, monitor, sweep, venue, history>>

\* An error: the gate or the venue refuses, the answer is lost, or the ledger does
\* not take the fill.
EntryFails(p) ==
  /\ entering[p] # "no"
  /\ entering' = [entering EXCEPT ![p] = "no"]
  /\ Mark(p, "FAILED")
  /\ lost' = IF entering[p] = "filled" THEN lost \cup {OptionOf[p]} ELSE lost
  /\ UNCHANGED <<process, papers, closing, monitor, sweep, venue, ghost, missed>>

-----------------------------------------------------------------------------
(* Exit: OnClose, CloseAll and the close handler *)

Copy(t, by) == [t |-> t, by |-> by, product |-> trades[t].product, size |-> trades[t].size,
                pc |-> "begun"]

Exiting(t, by) == \E c \in closing : c.t = t /\ c.by = by

\* OnClose: a trade that is not open is not found.  Bounds: one exit of each caller,
\* and MaxExits, at a time.
Exits(t, by) ==
  /\ Cardinality(closing) < MaxExits
  /\ closing' = IF Open(t) /\ ~Exiting(t, by) THEN closing \cup {Copy(t, by)} ELSE closing

\* Mutant of OnClose: a trade whose entry is not recorded yet is passed over.
OnCloseRecorded(p) ==
  /\ up /\ p \notin stopped
  /\ stopped' = stopped \cup {p}
  /\ IF trades[p].product # "none" THEN Exits(p, "paper") ELSE closing' = closing
  /\ missed' = IF p \notin opened THEN missed \cup {p} ELSE missed
  /\ UNCHANGED <<process, opened, trades, entering, monitor, sweep, venue, lost, ghost>>

\* The switch is not asked.  The goroutine of the closing may overtake the one of the
\* opening: then there is no trade yet.  For an exit that banks a profit OnClose
\* returns without a change.
OnClose(p) ==
  /\ up /\ p \notin stopped
  /\ stopped' = stopped \cup {p}
  /\ Exits(p, "paper")
  /\ missed' = IF p \notin opened THEN missed \cup {p} ELSE missed
  /\ UNCHANGED <<process, opened, trades, entering, monitor, sweep, venue, lost, ghost>>

CloseAll ==
  /\ up /\ \A c \in closing : c.by # "all"
  /\ Cardinality(closing) + Cardinality(OpenTrades) <= MaxExits
  /\ closing' = closing \cup {Copy(t, "all") : t \in OpenTrades}
  /\ UNCHANGED <<process, papers, trades, entering, monitor, sweep, venue, history>>

\* CloseAll sends one order after the other.
Turn(c) == c.by = "all" => \A d \in closing : d.by = "all" => d.pc = "begun"

\* The order of an exit of t has been answered.
Sold(t) == \E c \in closing : c.t = t /\ c.pc = "sold"

\* Another exit has sold what this one is to sell.
Contested(c) == ~Open(c.t) \/ Sold(c.t)

Advance(c) == closing' = (closing \ {c}) \cup {[c EXCEPT !.pc = "sold"]}

\* Mutant of Left: the order is not reduce-only.
LeftOver(c) == held[c.product] - c.size

Left(c) == IF c.size > held[c.product] THEN 0 ELSE held[c.product] - c.size

\* A reduce-only order: it sells what there is, and nothing else.
CloseFills(c) ==
  /\ c.pc = "begun" /\ Turn(c) /\ c.product # "none" /\ held[c.product] > 0
  /\ held' = [held EXCEPT ![c.product] = Left(c)]
  /\ Advance(c)
  /\ ghost' = IF Contested(c) THEN ghost \cup {c.product} ELSE ghost
  /\ UNCHANGED <<process, papers, trades, entering, monitor, sweep, expired, lost, missed>>

CloseUnfilled(c) ==
  /\ c.pc = "begun" /\ Turn(c) /\ c.product # "none"
  /\ Advance(c)
  /\ UNCHANGED <<process, papers, trades, entering, monitor, sweep, venue, history>>

\* UpdateTradeAfterClose, which CloseAll repeats.
CloseRecorded(c) ==
  /\ c.pc = "sold"
  /\ Mark(c.t, "CLOSED")
  /\ closing' = closing \ {c}
  /\ UNCHANGED <<process, papers, entering, monitor, sweep, venue, history>>

\* An error: halted, refused, answer lost, or not taken by the ledger.  After it the
\* trade is FAILED, but CloseAll leaves it open.
CloseFails(c) ==
  /\ Turn(c) \/ c.pc = "sold"
  /\ closing' = closing \ {c}
  /\ IF c.by = "all" THEN trades' = trades ELSE Mark(c.t, "FAILED")
  /\ lost' = IF c.by # "all" /\ Entering(c.t) THEN lost \cup {OptionOf[c.t]} ELSE lost
  /\ ghost' = IF c.by = "all" /\ c.pc = "sold" THEN ghost \cup {c.product} ELSE ghost
  /\ UNCHANGED <<process, papers, entering, monitor, sweep, venue, missed>>

-----------------------------------------------------------------------------
(* Custody: the monitor and the adoption sweep *)

HasPosition(t) == trades[t].product # "none" /\ held[trades[t].product] > 0

\* Not among the positions, and past its expiry; an adopted trade has none.
Overdue(t) == ~HasPosition(t) /\ t \in Papers /\ OptionOf[t] \in expired

\* monitorPositions copies the open trades and reads the positions.  Any of those that
\* have one may have reached a level.  (What happens between the copy and the read is
\* left out: OnClose looks the trade up again.)
MonitorReads ==
  /\ up /\ monitor = Asleep
  /\ \E due \in SUBSET {t \in OpenTrades : HasPosition(t)} :
       monitor' = [exits |-> due, ends |-> {t \in OpenTrades : Overdue(t)}]
  /\ UNCHANGED <<process, papers, trades, entering, closing, sweep, venue, history>>

MonitorExpires(t) ==
  /\ t \in monitor.ends
  /\ monitor' = [monitor EXCEPT !.ends = @ \ {t}]
  /\ Mark(t, "CLOSED")
  /\ UNCHANGED <<process, papers, entering, closing, sweep, venue, history>>

MonitorExits(t) ==
  /\ t \in monitor.exits
  /\ monitor' = [monitor EXCEPT !.exits = @ \ {t}]
  /\ Exits(t, "monitor")
  /\ UNCHANGED <<process, papers, trades, entering, sweep, venue, history>>

Watched == monitor.exits \cup monitor.ends

\* The name of the next adopted trade of o: nobody holds a copy of an old one.
Free(t) == /\ trades[t] = Nobody
           /\ \A c \in closing : c.t # t
           /\ t \notin Watched
Slot(o) == <<o, CHOOSE k \in 1..MaxAdoptions : Free(<<o, k>>)>>
HasSlot(o) == \E k \in 1..MaxAdoptions : Free(<<o, k>>)

\* After a boot, and every tick of the armed engine: the positions are read without the
\* mutex.  When there are none the sweep ends.
AdoptReads ==
  /\ up /\ sweep.pc = "idle" /\ \E o \in Options : held[o] > 0
  /\ sweep' = [pc |-> "read", sizes |-> held]
  /\ UNCHANGED <<process, papers, trades, entering, closing, monitor, venue, history>>

\* Mutant of Adoptable: a position is adopted though an open trade has its product.
AdoptableTwice(o) == sweep.sizes[o] > 0 /\ Known(o) /\ HasSlot(o)

Adoptable(o) == sweep.sizes[o] > 0 /\ Known(o) /\ ~Tracked(o) /\ HasSlot(o)

\* What was read is no longer so, or the contract is of an entry not yet recorded.
Stale(o) ==
  \/ held[o] # sweep.sizes[o]
  \/ \E p \in Papers : OptionOf[p] = o /\ entering[p] = "filled"
  \/ \E c \in closing : c.product = o

AdoptUntracked ==
  /\ sweep.pc = "read"
  /\ sweep' = NoSweep
  /\ LET new == {o \in Options : Adoptable(o)} IN
     /\ trades' = [t \in Names |->
          IF \E o \in new : t = Slot(o)
          THEN [status |-> "OPEN", product |-> t[1], size |-> sweep.sizes[t[1]]]
          ELSE trades[t]]
     /\ ghost' = ghost \cup {o \in new : Stale(o)}
  /\ UNCHANGED <<process, papers, entering, closing, monitor, venue, lost, missed>>

-----------------------------------------------------------------------------
(* The operator, the venue, and crashes *)

\* ClearHistory drops every trade that is not open, and with it the product it had.
ClearHistory ==
  /\ up
  /\ trades' = [t \in Names |-> IF Open(t) THEN trades[t] ELSE Nobody]
  /\ lost' = lost \cup ({trades[t].product : t \in Names \ OpenTrades} \ {"none"})
  /\ UNCHANGED <<process, papers, tasks, venue, ghost, missed>>

\* No entry is sent within 30 minutes of the expiry.
Settle(o) ==
  /\ o \notin expired /\ \A p \in Papers : OptionOf[p] = o => entering[p] = "no"
  /\ expired' = expired \cup {o} /\ held' = [held EXCEPT ![o] = 0]
  /\ ghost' = ghost \cup {o}
  /\ UNCHANGED <<process, papers, trades, tasks, lost, missed>>

\* The entries on the wire, some of which are filled all the same.
Sent == {p \in Papers : entering[p] = "sent"}
Filled == {p \in Papers : entering[p] = "filled"}

Crash ==
  /\ up /\ crashes < MaxCrashes
  /\ up' = FALSE /\ crashes' = crashes + 1
  /\ entering' = [p \in Papers |-> "no"] /\ closing' = {}
  /\ monitor' = Asleep /\ sweep' = NoSweep
  /\ \E S \in SUBSET Sent :
       /\ held' = [o \in Options |-> held[o] + Cardinality({p \in S : OptionOf[p] = o})]
       /\ lost' = lost \cup {OptionOf[p] : p \in S \cup Filled}
  /\ ghost' = ghost \cup {c.product : c \in {d \in closing : d.pc = "sold"}}
  /\ missed' = missed \cup ({c.t : c \in {d \in closing : d.by = "paper"}} \cap Papers)
  /\ UNCHANGED <<papers, trades, expired>>

\* RestoreTrades.
Restart ==
  /\ ~up
  /\ up' = TRUE
  /\ UNCHANGED <<crashes, papers, trades, tasks, venue, history>>

-----------------------------------------------------------------------------
Init ==
  /\ up = TRUE /\ crashes = 0
  /\ opened = {} /\ stopped = {}
  /\ trades = [t \in Names |-> Nobody]
  /\ entering = [p \in Papers |-> "no"] /\ closing = {}
  /\ monitor = Asleep /\ sweep = NoSweep
  /\ held = [o \in Options |-> 0] /\ expired = {}
  /\ lost = {} /\ ghost = {} /\ missed = {}

OfPaper(p) ==
  \/ OnOpen(p) \/ OnOpenSkipped(p) \/ OnClose(p)
  \/ EntryFills(p) \/ EntryUnfilled(p) \/ EntryRecorded(p) \/ EntryFails(p)

OfExit(c) == CloseFills(c) \/ CloseUnfilled(c) \/ CloseRecorded(c) \/ CloseFails(c)

Custody == MonitorReads \/ AdoptReads \/ AdoptUntracked

Next ==
  \/ \E p \in Papers : OfPaper(p)
  \/ \E c \in closing : OfExit(c)
  \/ \E t \in Names : MonitorExits(t) \/ MonitorExpires(t)
  \/ Custody \/ CloseAll \/ ClearHistory \/ Crash \/ Restart
  \/ \E o \in Options : Settle(o)

Spec == Init /\ [][Next]_vars

-----------------------------------------------------------------------------
(* Properties *)

\* live_position_custody.go:15-27: an open contract is never forgotten.  A contract
\* is of a product that a trade on record has, so that the sweep can adopt it, or
\* its entry is about to be recorded; it escapes only if its entry failed after the
\* fill, an exit failed the trade during its entry, a crash fell between the fill
\* and its record, or ClearHistory dropped the trade.
CustodyKept ==
  up => \A o \in Options : held[o] > 0 =>
          \/ Known(o) \/ o \in lost
          \/ \E p \in Papers : OptionOf[p] = o /\ entering[p] = "filled" /\ Open(p)

\* The contracts of o that open trades claim: each of a trade until an exit has sold.
Claims(o) ==
  UNION {{t} \X (1..trades[t].size) :
           t \in {r \in OpenTrades : trades[r].product = o /\ ~Sold(r)}}

\* The open trades claim no more contracts than there are, unless an order was
\* accepted and not filled, two exits sold for one trade, a sweep adopted what it had
\* read before it changed, an exit lost its answer, or the product has settled.
ClaimsAreReal == \A o \in Options : Cardinality(Claims(o)) > held[o] => o \in ghost

\* live_bridge.go:737-745: a strategy has one live trade.
OneTradePerStrategy ==
  \A p, r \in Papers : Open(p) /\ Open(r) /\ StrategyOf[p] = StrategyOf[r] => p = r

\* live_bridge.go:801-804: a paper exit that is no profit takes the live trade off,
\* armed or not, halted or not: it is being closed or no longer open, unless
\* the exit overtook the opening or the process died.
PaperExitReachesTrade ==
  \A p \in Papers :
    p \in stopped /\ Open(p) => Exiting(p, "paper") \/ p \in missed

\* Somebody works with t as it was when it was open.
Copied(t) == Entering(t) \/ t \in {c.t : c \in closing} \cup Watched

\* live_bridge.go:291-295: a trade that is not open is never open again, and it stays
\* CLOSED or FAILED as it is unless somebody still works with it.
EndsForGood ==
  [][\A t \in Names :
       trades[t].status \in {"FAILED", "CLOSED"} /\ trades'[t] # trades[t] =>
         \/ trades'[t] = Nobody
         \/ /\ trades'[t].status \in {"FAILED", "CLOSED"}
            /\ Copied(t)]_vars

=============================================================================
