------------------------------ MODULE PerpBridge ------------------------------
(***************************************************************************)
(* The live desk of perpetuals: internal/delta/perp_bridge.go and its      *)
(* persistence, brackets and switches, as cmd/scalp_prelive/live.go runs   *)
(* them against one Delta account.                                         *)
(*                                                                         *)
(* Three goroutines send orders: the paper desk, which offers its fills    *)
(* one at a time, the 15-second monitor, and CLOSE-ALL.  Each holds copies *)
(* of the book across its calls to the venue.  A call may be refused, may  *)
(* be carried out with its answer lost, or may be accepted and fill        *)
(* nothing, which the client does not tell from a fill.  The book is saved *)
(* at every change and reconciled with the venue after a restart.          *)
(*                                                                         *)
(* A trade is one contract of its stream's product; the venue nets them.   *)
(* Prices are left out: a stop, a target or an expiry may come at any tick.*)
(***************************************************************************)
EXTENDS Integers, FiniteSets

CONSTANTS
  Trades,       \* possible live trades
  Streams,      \* strategy and symbol pairs of the allow-list
  Products,
  StreamOf,     \* the stream of each trade
  ProductOf,    \* the product of each stream
  Longs,        \* the trades that buy
  MaxOpen,      \* MaxConcurrentPositions
  MaxPerSymbol, \* MaxPositionsPerSymbol
  Switchable,   \* bound: the streams somebody turns off or on
  MaxNet        \* contracts of a product the venue lets one account hold

ASSUME PerpBridgeAssumption ==
  /\ IsFiniteSet(Trades) /\ Longs \subseteq Trades
  /\ StreamOf \in [Trades -> Streams] /\ ProductOf \in [Streams -> Products]
  /\ MaxOpen \in Nat /\ MaxPerSymbol \in Nat /\ MaxNet \in Nat

VARIABLES
  phase,    \* the process: down, closing orphans in Restore, or up
  armed, book,
  off,      \* strategyOff
  guarded,  \* trades recorded with BracketsAttached
  disk,     \* the state file: the open book and the switches
  net,      \* at the venue: the signed position in each product
  guard,    \* at the venue: the products on which a bracket rests
  orphans,  \* products that Restore has still to flatten
  opener,   \* OnPaperOpen in progress: where it is, and the trade it is for
  monitor,  \* checkExits: where it is, the products it read marked, what it has to do
  closer,   \* CloseAll: where it is and what it has to do
  stray,    \* history: products with a contract that nobody may own, see Uncovered
  bare,     \* history: products whose bracket fired, or was cancelled under an entry
  sweep     \* history: a CloseAll runs or ended without error, and the trade it found under way

custody == <<book, disk>>
venue == <<net, guard>>
history == <<stray, bare, sweep>>
vars == <<phase, armed, off, guarded, custody, venue, orphans, opener, monitor, closer, history>>

Product(t) == ProductOf[StreamOf[t]]
NoTrade == [pc |-> "idle", t |-> "none"]
Asleep == [pc |-> "idle", marked |-> {}, known |-> {}, todo |-> {}, t |-> "none"]
NoSweep == [state |-> "no", carried |-> {}]

TypeOK ==
  /\ phase \in {"down", "orphans", "up"} /\ armed \in BOOLEAN
  /\ book \subseteq Trades /\ off \subseteq Streams /\ guarded \subseteq Trades
  /\ disk \in [open : SUBSET Trades, off : SUBSET Streams]
  /\ net \in [Products -> -MaxNet..MaxNet] /\ guard \subseteq Products /\ orphans \subseteq Products
  /\ opener \in [pc : {"begun", "filled", "attached"}, t : Trades] \cup {NoTrade}
  /\ monitor \in [pc : {"idle", "read", "walk", "finish", "cancel"}, marked : SUBSET Products,
                 known : SUBSET Trades, todo : SUBSET Trades, t : Trades \cup {"none"}]
  /\ monitor.pc \in {"finish", "cancel"} => monitor.t \in Trades
  /\ closer \in [pc : {"idle", "walk", "finish"}, todo : SUBSET Trades, t : Trades \cup {"none"}]
  /\ closer.pc = "finish" => closer.t \in Trades
  /\ stray \subseteq Products /\ bare \subseteq Products
  /\ sweep \in [state : {"no", "runs", "clean"}, carried : SUBSET Trades]

-----------------------------------------------------------------------------
(* The venue *)

Towards(t) == IF t \in Longs THEN 1 ELSE -1

\* Mutant of OnSide: closing orders are not reduce-only.
OnAnySide(t) == TRUE

\* A reduce-only order for t is filled only against a position on its side.
OnSide(t) == net[Product(t)] * Towards(t) > 0

\* Mutant of Fillable: the venue lets one contract more.
FillableAtLimit(t) == net[Product(t)] * Towards(t) <= MaxNet

\* An entry beyond the venue's limit is refused.
Fillable(t) == net[Product(t)] * Towards(t) < MaxNet

Fill(t, sign) == net' = [net EXCEPT ![Product(t)] = @ + sign * Towards(t)]

\* A bracket fires, or the position is liquidated: it is gone at once, and of the
\* bracket a leg may stay.
VenueCloses(p) ==
  /\ net[p] # 0
  /\ net' = [net EXCEPT ![p] = 0] /\ stray' = stray \ {p}
  /\ \/ guard' = guard \ {p} /\ bare' = bare \cup {p}
     \/ UNCHANGED <<guard, bare>>
  /\ UNCHANGED <<phase, armed, off, guarded, custody, orphans, opener, monitor, closer,
                 sweep>>

-----------------------------------------------------------------------------
(* The book and its file *)

\* persistLocked.  That a write may fail, which is logged, is left out.
Persist(open, switches) == disk' = [open |-> open, off |-> switches]

\* The map holds one trade for a stream: another one of it is replaced.
OfStream(t) == {u \in book : StreamOf[u] = StreamOf[t]}

\* Mutant of Booked: what is booked is written by the next change only.
BookedUnsaved(t) ==
  /\ book' = (book \ OfStream(t)) \cup {t}
  /\ disk' = disk

Booked(t) ==
  /\ book' = (book \ OfStream(t)) \cup {t}
  /\ Persist(book', off)

\* finish deletes whatever trade its stream has, and does not ask whether t is
\* still open.
Finish(t) ==
  /\ book' = book \ OfStream(t)
  /\ Persist(book', off)

Supplants(t) == OfStream(t) \ {t} # {}

-----------------------------------------------------------------------------
(* Entry: OnPaperOpen *)

InFlight == IF opener.pc \in {"filled", "attached"} THEN {opener.t} ELSE {}

\* A trade is a new one: nobody holds a pointer to it.
Fresh(t) == t \notin book \cup disk.open \cup monitor.todo \cup monitor.known
                     \cup closer.todo \cup {monitor.t, closer.t} \cup sweep.carried

On(p, S) == {t \in S : Product(t) = p}

\* Mutant of Admits: a stream may hold a second position.
AdmitsSecond(t) ==
  /\ StreamOf[t] \notin off
  /\ Cardinality(On(Product(t), book)) < MaxPerSymbol
  /\ Cardinality(book) < MaxOpen

\* One position a stream, the switch, the cap of the symbol and that of the book.
Admits(t) ==
  /\ OfStream(t) = {} /\ StreamOf[t] \notin off
  /\ Cardinality(On(Product(t), book)) < MaxPerSymbol
  /\ Cardinality(book) < MaxOpen

\* The checks read memory only; what follows them calls the venue.
OpenBegin(t) ==
  /\ phase = "up" /\ opener = NoTrade /\ armed /\ Fresh(t) /\ Admits(t)
  /\ opener' = [pc |-> "begun", t |-> t]
  /\ UNCHANGED <<phase, armed, off, guarded, custody, venue, orphans, monitor, closer, history>>

\* The price grid or the sizing refuses; or the venue, and nothing is filled.
OpenRefused ==
  /\ opener.pc = "begun"
  /\ opener' = NoTrade
  /\ UNCHANGED <<phase, armed, off, guarded, custody, venue, orphans, monitor, closer, history>>

\* The price grid refuses the stream once more, and that switches it off; the
\* number of refusals in a row is abstracted.
GridSwitchesOff ==
  /\ opener.pc = "begun" /\ StreamOf[opener.t] \in Switchable
  /\ opener' = NoTrade
  /\ off' = off \cup {StreamOf[opener.t]}
  /\ Persist(book, off')
  /\ UNCHANGED <<phase, armed, guarded, book, venue, orphans, monitor, closer, history>>

\* The order is accepted: filled, or cancelled by the venue for want of a fill.
EntryAccepted ==
  /\ opener.pc = "begun"
  /\ opener' = [opener EXCEPT !.pc = "filled"]
  /\ (Fillable(opener.t) /\ Fill(opener.t, 1)) \/ net' = net
  /\ UNCHANGED <<phase, armed, off, guarded, custody, guard, orphans, monitor, closer, history>>

\* It is filled, but its answer is lost: the error returns without a trade.
EntryUnanswered ==
  /\ opener.pc = "begun"
  /\ opener' = NoTrade
  /\ Fillable(opener.t) /\ Fill(opener.t, 1)
  /\ stray' = stray \cup {Product(opener.t)}
  /\ UNCHANGED <<phase, armed, off, guarded, custody, guard, orphans, monitor, closer, bare, sweep>>

\* attachBrackets: taken, refused, or taken with its answer lost.
Attach ==
  /\ opener.pc = "filled"
  /\ opener' = [opener EXCEPT !.pc = "attached"]
  /\ \/ /\ guard' = guard \cup {Product(opener.t)} /\ bare' = bare \ {Product(opener.t)}
        /\ guarded' \in {guarded \cup {opener.t}, guarded \ {opener.t}}
     \/ /\ guarded' = guarded \ {opener.t}
        /\ UNCHANGED <<guard, bare>>
  /\ UNCHANGED <<phase, armed, off, custody, net, orphans, monitor, closer, stray, sweep>>

Book ==
  /\ opener.pc = "attached"
  /\ Booked(opener.t)
  /\ opener' = NoTrade
  /\ UNCHANGED <<phase, armed, off, guarded, venue, orphans, monitor, closer, history>>

-----------------------------------------------------------------------------
(* Exits: closePosition and finish, called by the monitor and by CloseAll *)

\* The order is filled, or accepted and not filled; either is booked as an exit.
ExitAccepted(t) ==
  \/ OnSide(t) /\ Fill(t, -1) /\ stray' = stray
  \/ net' = net /\ stray' = stray \cup {Product(t)}

\* An error: nothing was filled, or the answer was lost.  The trade stays.
ExitFails(t) == net' = net \/ (OnSide(t) /\ Fill(t, -1))

\* checkExits reads the venue's positions first; an empty mark of one that is held is
\* read as zero (client.go:420-425) ...
MonitorReads ==
  /\ phase = "up" /\ monitor.pc = "idle"
  /\ \E marked \in SUBSET {p \in Products : net[p] # 0} :
       monitor' = [Asleep EXCEPT !.pc = "read", !.marked = marked,
                    !.known = {t \in book \cup InFlight : net[Product(t)] = 0}]
  /\ UNCHANGED <<phase, armed, off, guarded, custody, venue, orphans, opener, closer, history>>

MonitorBlind ==
  /\ phase = "up" /\ monitor.pc = "idle"
  /\ armed' = FALSE
  /\ UNCHANGED <<phase, off, guarded, custody, venue, orphans, opener, monitor, closer, history>>

\* ... and copies the book next.
MonitorCopies ==
  /\ monitor.pc = "read"
  /\ monitor' = [monitor EXCEPT !.pc = "walk", !.todo = book]
  /\ UNCHANGED <<phase, armed, off, guarded, custody, venue, orphans, opener, closer, history>>

\* A trade whose product was not read, or read without a mark, counts as closed by the
\* venue.
MonitorVanished(t) ==
  /\ monitor.pc = "walk" /\ t \in monitor.todo /\ Product(t) \notin monitor.marked
  /\ monitor' = [monitor EXCEPT !.pc = "finish", !.t = t, !.todo = @ \ {t}]
  /\ UNCHANGED <<phase, armed, off, guarded, custody, venue, orphans, opener, closer, history>>

MonitorExits(t) ==
  /\ monitor.pc = "walk" /\ t \in monitor.todo /\ Product(t) \in monitor.marked
  /\ monitor' = [monitor EXCEPT !.pc = "finish", !.t = t, !.todo = @ \ {t}]
  /\ ExitAccepted(t)
  /\ UNCHANGED <<phase, armed, off, guarded, custody, guard, orphans, opener, closer, bare, sweep>>

\* No level is reached, or the close fails: it is tried again at a later tick.
MonitorLeaves(t) ==
  /\ monitor.pc = "walk" /\ t \in monitor.todo /\ Product(t) \in monitor.marked
  /\ monitor' = [monitor EXCEPT !.todo = @ \ {t}]
  /\ ExitFails(t)
  /\ UNCHANGED <<phase, armed, off, guarded, custody, guard, orphans, opener, closer, history>>

\* A trade opened after the positions were read, or one that is held and had no mark,
\* counts as vanished all the same.
Unseen(t) == Product(t) \notin monitor.marked /\ t \notin monitor.known

MonitorFinishes ==
  /\ monitor.pc = "finish"
  /\ Finish(monitor.t)
  /\ stray' = IF Unseen(monitor.t) \/ Supplants(monitor.t)
              THEN stray \cup {Product(monitor.t)} ELSE stray
  /\ monitor' = [monitor EXCEPT !.pc = "cancel"]
  /\ UNCHANGED <<phase, armed, off, guarded, venue, orphans, opener, closer, bare, sweep>>

\* The record of a closed trade is forgotten with the last pointer to it.
Kept(t, held) == IF t \in book \cup held THEN guarded ELSE guarded \ {t}

\* Mutant of Shared: the bracket is cancelled whoever else holds the product.
SharedByNobody(t) == FALSE

\* Another trade of the book holds the product; one that is being opened is not seen.
Shared(t) == On(Product(t), book) \ {t} # {}

\* cancelBracketFor, which may fail.
MonitorCancels ==
  /\ monitor.pc = "cancel"
  /\ monitor' = [monitor EXCEPT !.pc = "walk", !.t = "none"]
  /\ guarded' = Kept(monitor.t, {})
  /\ \/ /\ monitor.t \in guarded /\ ~Shared(monitor.t)
        /\ guard' = guard \ {Product(monitor.t)}
        /\ bare' = IF On(Product(monitor.t), InFlight) # {}
                   THEN bare \cup {Product(monitor.t)} ELSE bare
     \/ UNCHANGED <<guard, bare>>
  /\ UNCHANGED <<phase, armed, off, custody, net, orphans, opener, closer, stray, sweep>>

MonitorDone ==
  /\ monitor.pc = "walk" /\ monitor.todo = {}
  /\ monitor' = Asleep
  /\ UNCHANGED <<phase, armed, off, guarded, custody, venue, orphans, opener, closer, history>>

\* Mutant of CloseAllBegins: the flattening does not disarm.
CloseAllBeginsArmed ==
  /\ phase = "up" /\ closer.pc = "idle"
  /\ closer' = [pc |-> "walk", todo |-> book, t |-> "none"]
  /\ sweep' = [state |-> "runs", carried |-> {opener.t} \cap Trades]
  /\ UNCHANGED <<phase, armed, off, guarded, custody, venue, orphans, opener, monitor, stray, bare>>

\* CloseAll disarms and copies the book.
CloseAllBegins ==
  /\ phase = "up" /\ closer.pc = "idle"
  /\ armed' = FALSE
  /\ closer' = [pc |-> "walk", todo |-> book, t |-> "none"]
  /\ sweep' = [state |-> "runs", carried |-> {opener.t} \cap Trades]
  /\ UNCHANGED <<phase, off, guarded, custody, venue, orphans, opener, monitor, stray, bare>>

CloseAllExits(t) ==
  /\ closer.pc = "walk" /\ t \in closer.todo
  /\ closer' = [closer EXCEPT !.pc = "finish", !.t = t, !.todo = @ \ {t}]
  /\ ExitAccepted(t)
  /\ UNCHANGED <<phase, armed, off, guarded, custody, guard, orphans, opener, monitor, bare, sweep>>

CloseAllFails(t) ==
  /\ closer.pc = "walk" /\ t \in closer.todo
  /\ closer' = [closer EXCEPT !.todo = @ \ {t}]
  /\ ExitFails(t)
  /\ sweep' = NoSweep
  /\ UNCHANGED <<phase, armed, off, guarded, custody, guard, orphans, opener, monitor, stray, bare>>

\* No bracket is cancelled here.
CloseAllFinishes ==
  /\ closer.pc = "finish"
  /\ Finish(closer.t)
  /\ stray' = IF Supplants(closer.t) THEN stray \cup {Product(closer.t)} ELSE stray
  /\ closer' = [closer EXCEPT !.pc = "walk", !.t = "none"]
  /\ guarded' = Kept(closer.t, monitor.todo \cup {monitor.t})
  /\ UNCHANGED <<phase, armed, off, venue, orphans, opener, monitor, bare, sweep>>

NoClose == [pc |-> "idle", todo |-> {}, t |-> "none"]

CloseAllEnds ==
  /\ closer.pc = "walk" /\ closer.todo = {}
  /\ closer' = NoClose
  /\ sweep' = IF sweep.state = "runs" THEN [sweep EXCEPT !.state = "clean"] ELSE NoSweep
  /\ UNCHANGED <<phase, armed, off, guarded, custody, venue, orphans, opener, monitor, stray, bare>>

-----------------------------------------------------------------------------
(* The operator *)

Arm ==
  /\ phase = "up"
  /\ armed' = TRUE /\ sweep' = NoSweep
  /\ UNCHANGED <<phase, off, guarded, custody, venue, orphans, opener, monitor, closer, stray, bare>>

Disarm ==
  /\ phase = "up"
  /\ armed' = FALSE
  /\ UNCHANGED <<phase, off, guarded, custody, venue, orphans, opener, monitor, closer, history>>

SetStrategyEnabled(s) ==
  /\ phase = "up" /\ s \in Switchable
  /\ off' \in {off \cup {s}, off \ {s}}
  /\ Persist(book, off')
  /\ UNCHANGED <<phase, armed, guarded, book, venue, orphans, opener, monitor, closer, history>>

-----------------------------------------------------------------------------
(* Crash and Restore *)

\* The products whose trades the file does not show as they are.
Unsaved == {Product(t) : t \in (book \ disk.open) \cup (disk.open \ book) \cup InFlight}

\* An order under way is at the venue by the time the next process reads, or never.
Crash ==
  /\ phase # "down"
  /\ phase' = "down" /\ armed' = FALSE /\ book' = {} /\ off' = {} /\ orphans' = {}
  /\ opener' = NoTrade /\ monitor' = Asleep /\ closer' = NoClose
  /\ \/ net' = net /\ stray' = stray \cup Unsaved \cup orphans
     \/ /\ opener.pc = "begun" /\ Fillable(opener.t) /\ Fill(opener.t, 1)
        /\ stray' = stray \cup Unsaved \cup {Product(opener.t)}
  /\ guarded' = guarded \cap disk.open
  /\ sweep' = NoSweep
  /\ UNCHANGED <<disk, guard, bare>>

\* A trade of the file is resumed when the venue holds its product, else it is
\* booked as closed.
Resumed == {t \in disk.open : net[Product(t)] # 0}

\* What the venue holds and no resumed trade is of; of what is known nothing is
\* compared but the product.
Restore ==
  /\ phase = "down"
  /\ off' = disk.off /\ book' = Resumed
  /\ orphans' = {p \in Products : net[p] # 0 /\ On(p, Resumed) = {}}
  /\ stray' = {p \in stray : On(p, Resumed) # {}}
  /\ phase' = "orphans"
  /\ UNCHANGED <<armed, guarded, disk, venue, opener, monitor, closer, bare, sweep>>

\* Without the venue's answer the book is taken as the file has it.
RestoreBlind ==
  /\ phase = "down"
  /\ off' = disk.off /\ book' = disk.open /\ phase' = "up"
  /\ UNCHANGED <<armed, guarded, disk, venue, orphans, opener, monitor, closer, history>>

\* closeOrphan: its failure is logged.
CloseOrphan(p) ==
  /\ phase = "orphans" /\ p \in orphans
  /\ orphans' = orphans \ {p}
  /\ \/ net' = [net EXCEPT ![p] = 0] /\ stray' = stray
     \/ net' = net /\ stray' = stray \cup {p}
  /\ UNCHANGED <<phase, armed, off, guarded, custody, guard, opener, monitor, closer, bare, sweep>>

RestoreEnds ==
  /\ phase = "orphans" /\ orphans = {}
  /\ Persist(book, off) /\ phase' = "up"
  /\ UNCHANGED <<armed, off, guarded, book, venue, orphans, opener, monitor, closer, history>>

-----------------------------------------------------------------------------
Init ==
  /\ phase = "up" /\ armed = FALSE /\ book = {} /\ off = {} /\ guarded = {}
  /\ disk = [open |-> {}, off |-> {}]
  /\ net = [p \in Products |-> 0] /\ guard = {} /\ orphans = {}
  /\ opener = NoTrade /\ monitor = Asleep /\ closer = NoClose
  /\ stray = {} /\ bare = {} /\ sweep = NoSweep

Enter == \/ OpenRefused \/ GridSwitchesOff \/ EntryAccepted \/ EntryUnanswered
         \/ Attach \/ Book

Monitor == \/ MonitorReads \/ MonitorBlind \/ MonitorCopies \/ MonitorFinishes
           \/ MonitorCancels \/ MonitorDone

CloseAll == CloseAllBegins \/ CloseAllFinishes \/ CloseAllEnds

WithTrade(t) == \/ OpenBegin(t) \/ MonitorVanished(t) \/ MonitorExits(t) \/ MonitorLeaves(t)
                \/ CloseAllExits(t) \/ CloseAllFails(t)

Next ==
  \/ Enter \/ Monitor \/ CloseAll \/ Arm \/ Disarm
  \/ Crash \/ Restore \/ RestoreBlind \/ RestoreEnds
  \/ \E t \in Trades : WithTrade(t)
  \/ \E p \in Products : VenueCloses(p) \/ CloseOrphan(p)
  \/ \E s \in Streams : SetStrategyEnabled(s)

Spec == Init /\ [][Next]_vars

-----------------------------------------------------------------------------
(* Safety *)

Owned(p, S) == Cardinality({t \in On(p, book \cup InFlight) : t \in S})

\* More contracts than the trades of that direction account for.
Uncovered(p) == net[p] > Owned(p, Longs) \/ -net[p] > Owned(p, Trades \ Longs)

\* perp_bridge.go:602-605: every position is owned until it exits.  The venue
\* holds a contract that no trade of the book accounts for only if an entry was
\* never answered, an exit was booked that filled nothing, a trade was finished by
\* a monitor that had read the venue before it opened, or no mark for it, or under
\* another trade of its stream, a crash found the file behind, or Restore could not
\* close an orphan.
EveryContractOwned ==
  phase = "up" => \A p \in Products : Uncovered(p) => p \in stray

\* One live position a stream, as the paper desk holds one (perp_bridge.go:342), and
\* the two caps: for the book and the entry under way together, however exits and
\* restarts fall between the check and the order.
LimitsHold ==
  LET S == book \cup InFlight IN
  /\ \A t, u \in S : StreamOf[t] = StreamOf[u] => t = u
  /\ Cardinality(S) <= MaxOpen
  /\ \A p \in Products : Cardinality(On(p, S)) <= MaxPerSymbol

\* After a CLOSE-ALL that reports no error nothing is open, until somebody arms
\* again, but the trade whose entry was under way when it began.
CloseAllLeavesOne == sweep.state = "clean" => book \subseteq sweep.carried

\* perp_bracket_cleanup.go:84-86: no cancel strips another trade's protection.  A
\* trade that counts as bracketed has a bracket, unless it fired or was cancelled
\* while an entry on the product was not yet booked.
BracketKept ==
  \A t \in book \cap guarded : Product(t) \in guard \cup bare

\* perp_bridge.go:577-578: a crash at any time finds the book and the switches in
\* the file.
DiskIsBook ==
  phase = "up" => disk = [open |-> book, off |-> off]

=============================================================================
