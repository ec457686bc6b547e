# TLA+ verification of this ns-3 tree: PDCP duplication and coding, RLC, visualizer, test runner

The repository is an ns-3 tree. Its own contribution, in the words of the top-level
`README.md`, is a copy function in the PDCP layer, network coding on top of it, and
two ways of forwarding and receiving. One data radio bearer is served by *two* RLC
entities. PDCP sends every SDU on both ("Copy") or spreads coded groups of SDUs over
both ("NC"), and a selective retransmission protocol inside PDCP recovers what both
lost. This project models that code from PDCP down to the point where one transport
block is shared by the two RLCs, and the RLC UM receiver at the other end.

The tree also holds programs with real threads, which the event simulator has not: the
Python visualizer (`src/src/visualizer`), where a simulation thread and a GTK thread
share a lock, and `src/test.py`, where worker threads run the test suites. Both are
modelled too. The rest of the tree is upstream ns-3 and stays outside.

Paths below are relative to `src/src/lte/model` unless they say otherwise.

## 1. Inventory

| component | sources | state | operations | interacts with |
|---|---|---|---|---|
| PDCP entity | `lte-pdcp.cc/.h` | sequence numbers, RLC toggle, Copy/NC switches | transmit and receive SDU, report retry timers | upper layer (SAP calls), CopyControl/NcControl (direct calls), two RLCs |
| Copy control | `CopyControl.cc/.h` | `m_groupnum`, encoding list, decoding list with timers and report counts, `m_ncVrMs`, flags | save, duplicate, receive, poll, report, answer | called by PDCP; its flags steer PDCP |
| NC control | `NcControl.cc/.h` | the same, with packet vectors and ranks | save, code, receive, decode, poll, report, answer | called by PDCP |
| NcHeader | `lte-nc-header.cc/.h` | none | serialise | travels with every packet |
| RLC UM | `lte-rlc-um.cc/.h`, `lte-rlc-sequence-number.h` | tx buffer and its size, buffer-status timer, reception buffer, VR(UR), VR(UX), VR(UH), t-Reordering, reassembly state | enqueue, segment and join, receive, reorder, reassemble | PDCP above, MAC below |
| BWP manager | `contrib/nr/model/bwp-manager-gnb.cc` | which RLC leads, for the whole cell | share one transmit opportunity between two RLCs | MAC, both RLCs |
| RRC | `lte-enb-rrc.cc`, `lte-ue-rrc.cc` | bearers | create PDCP and RLC entities | everything above |
| RLC AM, RLC TM | `lte-rlc-am.cc`, `lte-rlc-tm.cc` | own buffers | upstream | - |
| MAC, HARQ, PHY, schedulers | `contrib/nr/model`, `lte` | queue size per logical channel, bytes used of a transport block | grant; lose, delay and reorder RLC PDUs | RLC |
| EPC, NAS | `epc-*.cc` | - | SDUs in and out | PDCP |
| simulator core | `src/src/core` | event queue | schedule, cancel, run | all timers |
| visualizer | `src/src/visualizer` (`core.py`, `pyviz.cc`) | lock, `go`, `quit`, target time, pause messages, update timer | play, pause, change speed, update the view, quit | two threads, GTK main loop, simulator core |
| test runner | `src/test.py` | job queue, answer queue, `thread_exit`, counts | dispatch, run, hand back, collect, exit code | worker threads, child processes, Control-C |
| other upstream modules, examples, scripts | `src/src/*`, `examples`, `scratch` | - | - | - |

The hard behaviours, listed line by line under `hazards` in `PROJECT.json`:

* *Interleaving and order.* Two legs deliver copies, retransmissions and reports in any
  order; the simulator runs one event at a time, so an event handler is atomic and the
  interleavings are those of arrivals, losses and timers. In the visualizer and the test
  runner threads interleave at every access to what they share, and GTK handlers run
  inside one another.
* *Shared and stale state.* One `m_groupnum` serves sending and receiving; flags of an
  earlier packet are read after a report; the NC retry timer works on the wrong object;
  one queue size and one `flagForRlc2` serve both RLCs of a bearer, the latter even all
  bearers; a job that never ran carries the return code of a success.
* *Timers.* A status-report timer races the arrival it waits for; t-Reordering races HARQ.
* *Limits.* Requests per poll, reports per group, the reordering window, modulo 1024, the
  transmit buffer, unsigned arithmetic on what is left of a grant.
* *Liveness.* Retries must end with the group received or given up; a buffered PDU must
  be released; the loop over two RLCs must end; queued data must be scheduled; closing
  the window, or interrupting the tests, must end every thread.

What makes the components correct: PDCP hands each SDU up at most once, and no status
report unless a flag was left uninitialised or both ends send; a poll never loses sight of an unsettled group; a retry never asks for what has
arrived; an answer never reads an unfilled vector; RLC hands up whole SDUs in order; the
PDUs of both RLCs fit the transport block, and a half-sent SDU is finished before another
of the same RLC; no pause message is lost or shown twice; a test run that reports success
has run every test.

## 2. Modules

| module | models | size of state |
|---|---|---|
| `SduDelivery` | abstract specification: an accepted SDU may go up once at the other end; an end that handed one up may hand up other packets too | `sent`, `upper`, `foreign` |
| `PdcpCopy` | Copy branches of `LtePdcp`, `CopyControl`, at both ends, over two legs each way | below |
| `PdcpCopyProofs`, `PdcpCopySenderProofs` | theorems about `PdcpCopy`; with one sender | - |
| `PdcpNc` | NC branches of `LtePdcp`, `NcControl`, one direction | below |
| `PdcpNcProofs` | theorems about `PdcpNc` | - |
| `SequenceNumber` | `SequenceNumber10`: arithmetic modulo `Modulus`, comparison relative to a base | none |
| `RlcUm` | receiving side of `LteRlcUm` | below |
| `RlcUmProofs` | theorems about `RlcUm` and `SequenceNumber` | - |
| `RlcLegs` | abstract specification: what PDCP expects of the RLCs below it, one queue each, SDUs sent one after the other | `queue`, `half` |
| `BwpManagerGnb` | `LteRlcUm` transmitter of both RLCs at the gNB, the scheduler's queue size, `BwpManagerGnb::DoNotifyTxOpportunity` | below |
| `BwpManagerGnbProofs`, `BwpManagerGnbShareProofs` | theorems about `BwpManagerGnb`; about sharing and bytes | - |
| `Visualizer` | `SimulationThread` and the GTK thread of the visualizer | below |
| `VisualizerProofs` | theorems about `Visualizer` | - |
| `TestRunner` | `run_tests` and its worker threads | below |
| `TestRunnerProofs` | theorems about `TestRunner` | - |
| `MC*` | what TLC loads | - |

The chain for one bearer is `SduDelivery` <- `PdcpCopy` -> legs -> `RlcLegs` <-
`BwpManagerGnb` for sending and `RlcUm` for receiving, where `<-` is refinement. The
step from `RlcLegs` and `RlcUm` to the lossy FIFO legs of `PdcpCopy` is an argument, not a
checked refinement: SDUs leave a leg one after the other, and go up whole and in order.

### PdcpCopy

State is kept per peer (`Enb`, `Ue`) and named after the members of `CopyControl`. The
decoding list is split into sets: groups with a buffer (`known`), placeholders
(`noReceive`), `complete`, and running timers (`timer`). `encoding` keeps only the first
packet saved under a group, because that is the only one the code ever reads back.

| action | code |
|---|---|
| `TriggerDoTransmitPdcpSdu` | save, first copy on leg 1, second copy on leg 2, next group |
| `ReceiveData` | `RecvAndSave`, hand up, `stopArqTimer`, poll |
| `ReceiveReport` | answer on both legs, and then the rest of the branch with the old flags |
| `CopyExpireStatusReportTimer` | resend and restart, or stop after `MaxReports` |
| `LosePdu` | environment: radio loss, full RLC buffer, size filter of `DoReceivePdu` |

Each leg is a FIFO with losses. A retransmission (`NcArqAddTop = 1`) is inserted at any
place but the head, since what precedes the RLC buffer on the air is not distinguished
from the buffer. That a leg really is a FIFO with losses is what `RlcLegs`,
`BwpManagerGnb` and `RlcUm` are about.

`SduDelivery` is refined with `foreign <- reportUp`: the status report that
`lte-pdcp.cc:530` hands up is a step of the abstract bearer, not a stutter. The bearer
therefore promises nothing about other packets, except that they go up only at an end
that has handed up an SDU; when none goes up is `ReportsStayInPdcp`.

Undefined behaviour: `m_IfSendArq` has no initial value, so `Init` takes it from the
constant `InitialIfSendArq`. `stopArqTimer` may dereference `end()`; with the class
layout the handle read there is never written, and the model takes the timer as not
running. Left out because nothing reads them: `NACK_num`, statistics, tags, PDCP
sequence numbers.

### PdcpNc

A packet is a group and a sequence number; what it carries is a function of that number
(`Payload`): redundancy packets and retransmissions all carry the group's last original,
as in the code. Coefficients are drawn at random and never read, and are left out. The
radio is a bag in each direction, which covers both RLC entities and the toggle between
them. `NcArqReqSendOnce` schedules `CopyExpireStatusReportTimer` with `m_Copy`, whose map
is empty. In the build's layout the counter read through `end()` is one byte of
`m_packetStatistic`, zero at first and common to all groups, and the new timer handle
lands where nobody cancels it. The variables `strayCount` and `strayTimers` are these
two. Sender and receiver are different ends, so `m_groupnum` of each is one variable.

### RlcUm

SDUs are equal runs of a stream of units; a PDU is any next run of that stream, which is
what concatenation and segmentation produce. `DoReceivePdu` and `ExpireReorderingTimer`
are translated with all their window comparisons, including the base each
`SequenceNumber10` carries. The eight-way switch of `ReassembleAndDeliver` is three
rules: start afresh or continue, deliver the complete pieces, keep an incomplete last
one. PDUs are lost and overtake each other; `Overtaken + MaxLoss < Window` says that
fewer PDUs than the window are missing in a row, without which no window protocol can
tell old from new. t-Reordering may expire at any moment while it runs.

### BwpManagerGnb

Scheduling a bearer, the calls into its RLCs and the transmission of their PDUs are one
simulator event. The model takes one step per RLC call and allows no other event while
`op`, which holds the locals of `DoNotifyTxOpportunity`, is not `Idle`.

| action | code |
|---|---|
| `DoTransmitPdcpPdu` | buffer limit, insertion at the end or behind the head (`NcArqAddTop`), report, cancel the timer |
| `ExpireRbsTimer` | report again while data wait |
| `ScheduleDl` | the scheduler assigns, subtracts from its queue size, and calls the BWP manager |
| `OpportunityTooSmall`, `NoDataPending`, `SendSegment`, `SendWhole` | the ways `LteRlcUm::DoNotifyTxOpportunity (params, flag)` returns, each with what the manager makes of the return value (`Returned`) |
| `EndOpportunity` | back in the MAC |
| `OtherBearer` | `flagForRlc2` is a member of the cell's manager and is set by other bearers' opportunities |

Both RLCs are created under the same logical channel, so there is one `queueSize`, and
the last report stands. `op.used` counts what `NrGnbMac::DoTransmitPdu` asserts about.
A PDU of this transmitter holds one SDU or a piece of one. The ghost variable `sending`
names the SDU each RLC has sent a part of.

Not claimed: fairness between the two RLCs. While the leading RLC segments, it leads
again, and the other waits; `NothingStuck` therefore speaks of a bearer as a whole. Nor
that data are sent after a block of 7 or 8 bytes, which RLC refuses: the scheduler has
subtracted it and the refusal starts no timer, so `NothingStuck` speaks of behaviours
without refused blocks only.

### Visualizer

`update_view_timeout` runs the GTK event loop while it waits for the lock, so that any
handler, another `update_view_timeout` included, may run inside it: `frames` is the stack
of these calls. Times are relative to the last view, in sample periods, which keeps the
state finite without a bound on simulated time. `SimulatorRunUntil` runs to its target or
to the scenario's own end: `DoPause` sets `m_stop`, but nothing reads it. Handlers that
take the lock (tooltips, dragging, selection) are one action, `LockingHandler`; drawing is
part of `UpdateView`. Several queued calls of `update_model` count as one. Both live
timers that `_on_play_button_toggled` and `_speed_changed` may leave behind are kept.

### TestRunner

One action per access to a queue or to `thread_exit`. The main thread dispatches all jobs
and one stop job per worker, collects as many answers, and joins the workers. Return
codes are the ones the code tells apart; `Garbled` is an output that cannot be decoded,
which becomes code 1 although no results file need exist. `Job ()` sets the return code
to `False`, which equals 0: that is in `Init`. The ghost variables `launched`, `passed`
and `late` record what the programs did.

## 3. Runs

| run | instance | shows |
|---|---|---|
| `copy_oneway` | one sender, 3 SDUs, 3 losses, every group polls, one request per poll, 2 reports per group, both values of the uninitialised flag | at most once, timers only for missing groups, reports to the sender answerable and its own for group 0 only, one SDU per group, received groups never requested, `m_ncVrMs` passes only settled groups (give-up included), refinement of `SduDelivery`, reports handed up included |
| `copy_live` | one sender, 3 losses, poll every 2nd group, `m_IfSendArq` FALSE at the start, fair | a requested group arrives; retry loops end |
| `nc_repair` | K = 2, N = 3, 3 groups, 3 losses, 2 reports per group | scheduled retries, stray ones included, within the counted requests, give-up and `m_ncVrMs` bookkeeping, index in range, reports never overstate, K packets per group |
| `rlc_nowrap` | modulus 8, window 4, SDUs of 3 units, PDUs of up to 4, 6 PDUs, 2 losses | whole SDUs, in order, no impossible transition, VR(UR) missing |
| `rlc_wrap` | 10 PDUs, SDUs and PDUs of up to 2 units, overtaking by 2, fair | order across the wrap-around while no gap outlives the window; timer running whenever a PDU waits; comparable bases; the buffer drains |
| `bwp_share` | SDUs of 3 and 8 bytes, buffers of 17, transport blocks of 7 (refused), 9, 13 and 30, 4 SDUs, fair | the grant is never exceeded, bytes accounted, SDUs contiguous, no usable room left while data wait, refinement of `RlcLegs`; every opportunity ends, data do not stay for good unless a block was refused |
| `viz` | 4 user actions, 4 timer sources, one pause message, fair, deadlock checked | never more than a period ahead of the view, messages shown once; playing goes on, a pause settles, closing ends both threads |
| `test_runner` | 2 workers, 4 jobs of which one is skipped, every return code, an interrupt at any moment, fair, deadlock checked | success means that every test passed, results counted once, workers stop soon, the run ends |
| `copy_sharedgroup`, `copy_reportup`, `nc_decode`, `bwp_forgotten` | - | violations, section 5 |

`copy_oneway` has one sender, since `OneWayReports` and `OneSduPerGroup` fail with two
(section 5). The other safety properties hold for one sender or two by the theorems of
section 4.

Bounds. Three or four groups are the least with a polling group, a group behind it and
one that exceeds the batch limit. Losses are chosen so that both copies *and* a report
or an answer can be lost, and for give-up so that a whole retry sequence can fail. For
NC, two originals and one redundancy packet are the least in which a group is decoded
with an original missing. For RLC, 6 PDUs over a window of 4 pull the window, 10 PDUs
modulo 8 wrap around. For the transmitter, a block of 9 bytes carries a piece of an SDU,
13 the rest of it or a small one, 30 several PDUs of both RLCs, and 17 bytes of buffer
refuse the third SDU of 8. Blocks of 7 bytes are the ones RLC refuses: all safety properties
hold through them. The scheduler has already subtracted what it assigned and a refusal
starts no timer, so that nothing may bring the scheduler back, which is the flaw of
`bwp_forgotten` again: without its premise `[]~RefusedBlock` TLC refutes `NothingStuck`.
`ShortPdu` is 5 so that both MAC headers occur. In the visualizer,
four actions are play, pause, play and a change of speed, all possibly inside one
another; four sources allow three nested updates. In the test runner, two workers and two
jobs each let a worker launch one job more than its last look at the interrupt. `MaxAir` limits how many packets wait when an SDU is accepted.
`copy_live` has `MaxLoss` below the number of losses that defeats the first transmission
and every retry: with more, the code gives the group up and `m_ncVrMs` passes it although it was
never received.

Deadlock is checked in `viz` and `test_runner`, where the only rest is the end of the
program. In the others it is not: every instance sends finitely many SDUs and may then be
at rest.

Fairness. The simulator runs every event that is not cancelled, hence weak fairness of
the timer actions. In `PdcpCopy` it is also assumed of the arrivals on each leg: the MAC
goes on serving an RLC entity that reports data. `bwp_forgotten` shows when that is not
so; for PDCP a copy forgotten in a buffer is a late or lost one, which the losses of
`copy_live` stand for. Nothing forces the upper layer to send or the radio to lose.

* `BwpManagerGnb`: an event runs to its end, timers expire, and a bearer the scheduler
  believes to have data is served. Which transport block it gets is not assumed.
* `Visualizer`: weak fairness of each thread. Strong fairness of taking the lock: the GTK
  thread holds it for moments, a sample period apart, so the simulation thread gets it;
  and the inner event loop of `update_view_timeout` serves only what is pending before it
  tries the lock again. The user owes nothing.
* `TestRunner`: threads run, and the programs under test end.

## 4. Proofs

Each theorem holds for all values of the constants that the named assumption of its module
allows. All but the refinements have the same shape: an inductive invariant, one lemma per
action that keeps it (under it one step per conjunct the action can disturb), and a last
step that combines them.

| module | theorems | hypothesis beyond the constants' assumptions |
|---|---|---|
| `PdcpCopyProofs` | `TypeCorrect`, `AtMostOnceHolds`, `TimerOnlyWhileMissingHolds`, `PassedGroupsSettledHolds`, `ReceivedNeverRequestedHolds`, `ImplementsBearerHolds` (`PdcpCopy` implements `SduDelivery`) | none: one or two senders |
| `PdcpCopySenderProofs` | `OneWayReportsHolds`, `OneSduPerGroupHolds` | `Source = {a}` |
| `PdcpCopySenderProofs` | `ReportsStayInPdcpHolds` | `Source = {a}`, `TRUE \notin InitialIfSendArq` |
| `PdcpNcProofs` | `NcRetriesCountedHolds`, `NcPassedGroupsSettledHolds`, `AnswerIndexInRangeHolds`, `ReportNeverOverstatesHolds`, `OneBlockPerGroupHolds` | none |
| `RlcUmProofs` | `BasesAgreeHolds` | none |
| `RlcUmProofs` | `VrUrIsMissingHolds`, `BufferedHasTimerHolds`, `DeliveredWholeHolds`, `DeliveredInOrderHolds`, `NothingLeftOverHolds` | `MaxPdu < Modulus`: up to the wrap-around |
| `BwpManagerGnbProofs` | `GrantNotExceededHolds`, `SduContiguousHolds`, `ImplementsLegsHolds` (the two RLCs implement `RlcLegs`) | none |
| `BwpManagerGnbShareProofs` | `WorkConservingHolds`, `TypeOKHolds`, `BytesAccountedHolds` | none |
| `VisualizerProofs` | `NeverFarAheadHolds`, `MessagesOnceHolds`, `Exclusion` | none |
| `TestRunnerProofs` | `SuccessMeansPassedHolds`, `StopsSoonHolds`, `ResultsCountedHolds` | none |

**PdcpCopy.** `Inv == TypeOK /\ BufferInv /\ SduInv`. `BufferInv` relates
the sets of one end: placeholders are known and not received, a received group is
complete, timers run only for placeholders that are not complete, and a complete
placeholder has used its reports. It is needed because `TimerOnlyWhileMissing` alone does
not exclude that a poll starts a timer for a group that has arrived. `SduInv` ties groups
to SDUs: every data packet under way, and every saved one, is an SDU that was accepted,
and an SDU that went up belongs to a group that is no longer receivable. It is needed for
`AtMostOnce` when the shared `m_groupnum` makes group numbers be reused. Lemmas cover the
legs as sequences (append, tail, insertion) and the sets a poll computes (`PollSets`,
`PollStep`). The refinement adds `FlagInv`: `m_IfTransmitSduFlag` is set only at an end that
has handed up an SDU, so a report that goes up is an allowed step of the bearer.

With a single sender more holds. `SenderInv(a, b)` says that sender `a` has saved an SDU
under every group number below its `m_groupnum` and no other, and that the receiver `b`
knows of, times and requests only such groups. The receiver's `m_groupnum` is overwritten
freely; what keeps the sender's intact is that it receives nothing but reports.
`QuietInv(a)` says what these reports can do to the sender: its `maxRecv` stays 0 and its
transmit flag FALSE, so only an uninitialised `m_IfSendArq` makes it poll, for group 0, and
without such a poll or its retries no report reaches the receiver. `OneWayReportsHolds` and
`ReportsStayInPdcpHolds` follow.
`copy_sharedgroup` shows that `OneSduPerGroup` fails as soon as both ends send, so the
hypothesis cannot be dropped.

**PdcpNc.** `Inv` consists of the types, `OnAir` (an original is on the air at most once
and only after it was sent; redundancy and retransmissions only for groups sent completely),
`Ranks` (a vector has at most K packets, fewer while the group is incomplete, and no pending
report claims more), `Settled` (a complete group was decoded or has used its reports),
`Delivered` (what an incomplete group handed up is not on the air any more, and everything
handed up is counted), `TimerStopped` (a finished group has no timer of its own) and
`AnswerIndexInRange`. `OneBlockPerGroup` rests on `OnAir` and
`Delivered`: that no original is handed up twice is a fact about the radio, not about a test
in `NcControl`. `AnswerIndexInRange` rests on `OnAir` as well: a poll asks for groups at most
that of the packet that polls, and only redundancy and retransmissions poll. The bag of
packets is handled with lemmas of its own (adding, removing). `NcRetriesCounted` has an
invariant on top, `Counted`: the stray timers of a group, summed over the ranks they carry,
and its own timer are at most its reports. The sum is a table of partial sums (`AddsUp`),
which a step that adds or removes one timer changes from that rank on (`AddsUpChange`);
`TableIsSum` shows that it is what `ScheduledRetries` computes.

**RlcUm.** `BasesAgreeHolds` needs only `Bases`: the three state variables are well-formed
numbers and, while t-Reordering runs, carry the base that belongs to VR(UH). It holds
across the wrap-around. The others use `WindowInv == Bases /\ OnAir /\ InWindow /\
TimerRuns`. `InWindow`: VR(UR) is at most a window below VR(UH) and every buffered number
lies strictly between them. `TimerRuns`: t-Reordering runs while the two differ, for a VR(UX)
above VR(UR). `OnAir` counts: at most `losses` numbers from VR(UH) on are neither on the
air nor received, and no PDU is behind the newest by more than `Overtaken`. It is needed
for lemma `Gap`: a PDU that arrives is less than a window from VR(UH), so the comparisons of
`SequenceNumber10` order it as the integers do (lemmas `Distances`, `Order`, `Inside`). The
searches for a missing number are characterised by `NextMissingIs` and `FirstMissingIs`.
The hypothesis `MaxPdu < Modulus` cannot be dropped: with 11 PDUs modulo 8, an overtaking
and two losses TLC finds both properties violated (see section 5). `Window` is at least 2, since with
1 a number moved past the window compares as the oldest one.

Reassembly (`DeliveredWhole`, `DeliveredInOrder`, `NothingLeftOver`) adds `StreamInv` to
`WindowInv`. There is a function F such that PDU i carries the units from F[i] up to
F[i + 1]: F does not decrease, ends at `nextUnit`, and every PDU on the air or in the
buffer fits it, framing included. With p = F[`expected`], where `expected` is the number
reassembly expects next and at most VR(UR), what went up are whole SDUs that end at or below p, in
order, and a piece that is kept is exactly the part of an SDU before p. So an earlier loss
may have made reassembly forget a piece, but never keep a wrong one. Without F two PDUs in
the buffer could not be related to each other, and without `InWindow` a PDU taken from the
buffer could lie below `expected`. The lemmas go from the inside out: `BlocksAre` and
`PiecesAre` say what pieces a PDU is cut into, `UpAppend` and `AssembledAt` what one call
of `ReassembleAndDeliver` does to p, `ReassembleRun` what the loop over an ascending
sequence of numbers does, `DeliversRun` that the two loops of an arrival, outside the window and
then up to VR(UR), are such a run.

**BwpManagerGnb.** `Inv == Types /\ Grant /\ Buffers`. `Grant` adds to the property
that the next offer, with a header of 4 bytes, is still free: without it a step of the
loop could use what an earlier one used. That the offer is a natural number, so that
`remain - 3 - 1` never wraps, is part of `Types`. `Buffers` adds to `SduContiguous` that no
SDU is in a buffer twice and none has a name not yet given, which `RlcLegs` asks of a queued
SDU, and which shows that behind the head nothing is half sent. `Free` adds, for
`WorkConserving`, that while the loop goes on all that is free is on offer, and that an RLC
noted to have no data has none. `Sizes` adds that `txBufferSize` is the sum of the sizes in
the buffer, without which the subtraction of what was sent could go below zero. The sum is
stated by `SumsTo`, a table of the bytes from each place to the end, which is easy to carry
through a step; lemma `SumsAreBytes` shows that it gives what `BytesAccounted` computes.

**Visualizer.** `Inv == Types /\ TakenShort /\ LockHeld /\ InTransit`. `LockHeld` ties the
lock to the program counters of both threads, which is `Exclusion`, and which shows that the
messages `update_view_timeout` takes are not being added to. `TakenShort` says that they
are kept only until the dialog. No bound on nested updates, timers or actions is used.

**TestRunner.** `Inv == Types /\ Places /\ Results /\ Counts /\ Stopping /\ Exit`. `Places`:
each dispatched job is in one queue, or with one worker, or collected. `Results`: a finished
job was skipped, handed back or run, and passed exactly if its return code is 0. Without it
the return code 0 of a job never run could be taken for a success. `Counts` makes
the counters cardinalities of sets of collected jobs. `Stopping` adds to `StopsSoon` that a
worker that launched after the interrupt is not about to launch again.

**Recursive functions.** `Reassemble` and the sums in `BytesAccounted` and `ScheduledRetries`
are recursive functions.
For the prover f[x \in S] == e is the choice of some f with that equation, so
`ReassembleIs`, `SumsAreBytes` and `TableIsSum` first show that such an f exists (a least length without
one is contradictory) and then that it has the values in question (a least index
without them is contradictory). The least number comes from the library's fact that the
order of the naturals is well-founded, which needs no operator as a parameter.

Only model-checked, and why:

* liveness (`RequestedThenReceived`, `RetryLoopEnds`, `BufferDrains`, `OpportunityEnds`,
  `NothingStuck`, and the temporal properties of `Visualizer` and `TestRunner`): out of the
  prover's reach;
* `DeliveredInOrder` and `BufferedHasTimer` beyond the wrap-around, for instances without
  losses (`rlc_wrap`): with losses they are false there (section 5).

Every invariant that a passing run checks, and every action property and refinement, is stated by a
theorem.

## 5. Where the code and its comments disagree

* `copy_sharedgroup`, `CopyControl.cc:137`: reception overwrites the group number that the
  sender uses, although the header lists it under "send use". With traffic both ways an
  SDU goes out under an old group and is dropped as a duplicate.
* `copy_reportup`, `lte-pdcp.cc:530`: after a report the Copy branch continues with old
  flags and may hand the report up as an SDU. With one sender it takes an uninitialised
  `m_IfSendArq` that is TRUE (`ReportsStayInPdcpHolds`).
* `nc_decode`, `NcControl.cc:267`: decoding hands up other packets instead of the missing
  originals, even without loss, when redundancy overtakes an original.
* `bwp_forgotten`, `lte-rlc-um.cc:125`: both RLCs report under one logical channel, the
  scheduler keeps the last report, and a new PDU cancels the buffer-status timer. When the
  grant is spent on one RLC, the other's data may wait unknown to the scheduler and without
  a timer, until PDCP sends more. The scheduler's comment says that every UE with data to
  transmit is marked active.

Two more observations explain the bounds of the runs of `RlcUm` and are not runs:

* `lte-rlc-um.cc:1507`: after a window pull over the wrap-around, old PDUs stay in the
  buffer and go up a cycle later, out of order. It takes a gap that outlives 512 PDUs within
  t-Reordering (100 ms); `rlc_wrap` therefore keeps gaps below the window.
* `lte-rlc-um.cc:956`: VR(UR) stops at the wrap-around, so `VrUrIsMissing` is checked and
  proved before it only. The PDU is not lost (`rlc_wrap`) but waits for the next one or for
  t-Reordering. With losses around the wrap-around the timer may not be running either, and
  the PDU then waits for the next one.

## 6. Not modelled, and the plan

Not modelled, with reasons, in `PROJECT.json` under `components`. Of the modelled parts:

* the uplink transmitter: the UE's carrier manager calls the upstream overload of
  `DoNotifyTxOpportunity` for one RLC only; `RlcUm` covers the PDUs it makes;
* in the visualizer, drawing, menus and the IPython shell, which share nothing between the
  threads but what the lock protects;
* in `test.py`, an exception while a worker starts a program (the run would wait for ever for its
  answer), building with waf, the choice of suites, and the reports.

Much of the tree's Python is generated bindings (`modulegen__*.py`): tables of
declarations without behaviour. `wutils.py`, `wscript` files and the plotting scripts are
sequential tooling.

The plan, in this order:

1. PDCP sequence numbers and `GetStatus`/`SetStatus` at handover.
2. RLC AM.
3. Proofs: `DeliveredInOrder` across the wrap-around for instances without losses, with
   numbers unwrapped from VR(UH) as `Bases` does it for the comparisons.
