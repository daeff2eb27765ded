# Block acknowledgement, rate control, association and the event loop: TLA+ models and proofs

This directory is a verification project for the ns-3 tree under `src/`, an
ns-3 fork used to study Wi-Fi rate adaptation. Nearly all of that tree is the
upstream simulator; what the experiments run, in every configuration, is the
Wi-Fi MAC of `src/src/wifi/model` on the simulator of `src/src/core/model`. Its
core is the *block acknowledgement* machinery of 802.11n and later: sequence
numbers, the sliding windows at both ends, the in flight queue, retransmission,
discard and BlockAckReq. It is sequential code, yet the hard kind: two ends with
windows of their own, arithmetic modulo 4096, MPDUs that expire between two
events of the simulator, and a set of queues that must agree. That is what most
of the modules here are about. The others are about the rate managers the
experiments compare, small machines of counters whose long run behaviour is not
at all obvious from them; about how a station finds and keeps an access point,
with timers that run side by side; and about the simulator itself, its schedulers
and its two event loops, of which one shares its state with other threads.

Sections: [Inventory](#inventory), [Modules](#modules), [Runs](#runs),
[Bounds](#bounds), [Fairness](#fairness), [Findings](#findings),
[Proofs](#proofs), [Plan](#plan), [Not modelled](#not-modelled).

Paths below are relative to `src/src/wifi/model/` unless they start with `src/`;
those that start with `core/` are relative to `src/src/`.

## Inventory

| Component | State | Operations | Correct when |
|---|---|---|---|
| `block-ack-window.cc` | ring of flags, head, start | `Reset`, `At`, `Advance` | flags move with the window, reused cells are clear |
| `originator-block-ack-agreement.cc` | transmit window, agreement state, inactivity timer | `NotifyTransmittedMpdu`, `NotifyAckedMpdu`, `NotifyDiscardedMpdu` | it is the sliding window of the standard and starts at an unacknowledged MPDU |
| `recipient-block-ack-agreement.cc` | scoreboard, `m_winStartB`, buffered MPDUs | `NotifyReceivedMpdu`, `NotifyReceivedBar`, `FillBlockAckBitmap`, `Flush` | in order, at most once; what it reports it holds or has passed up |
| `block-ack-manager.cc` | agreements with their in flight queues, BlockAckReqs | `StorePacket`, `NotifyGotBlockAck`, `NotifyMissedBlockAck`, `NotifyDiscardedMpdu`, `GetBar`, `ScheduleBar`, the handshake's notifications | windows and queues agree; no lost MPDU blocks the window |
| `ht/ht-frame-exchange-manager.cc` with its base classes | the PSDU on the air, the timer, recipient agreements | start an exchange, RTS/CTS, responses, timeouts, ADDBA/DELBA | every exchange ends; each MPDU is acknowledged, retried or discarded once |
| `qos-txop.cc`, `wifi-mac-queue*.cc`, `mac-tx-middle.cc` | EDCA queue, blocked destinations, next sequence numbers | `PeekNextMpdu`, `GetNextMpdu`, `AssignSequenceNumber`, expiry, ADDBA timeouts | one number stands for one MPDU; expired MPDUs go |
| `mpdu-aggregator.cc`, `wifi-default-ack-manager.cc` | none | `GetNextAmpdu`, `TryAddMpdu` | an A-MPDU fits the window; the response asked for suits it |
| `rate-control/*` | counters and rate per station | report of success or failure, rate of the next frame | the rate stays in range, recovers, and does not oscillate for ever |
| `wifi-remote-station-manager.cc` | per station state, retry counters | `NeedRetransmission`, `NeedRts` | retries are bounded |
| `channel-access-manager.cc`, `txop.cc` | backoff, NAV, TXOP | grant or deny access | access is granted in the end, not to two at once |
| `sta-wifi-mac.cc`, `wifi-*assoc-manager.cc` | state, BSSID, AID, list of access points, timers of requests, scan and beacons | scan, request, response, beacon watchdog, disassociation | no state without the timer that ends it; the station ends up associated |
| `ap-wifi-mac.cc`, station states of `wifi-remote-station-manager.cc` | AIDs, state of each station, responses queued | association request, `TxOk`, `TxFailed` | both ends agree on who is associated and under which AID |
| `core/model/*-scheduler.cc` | events in a map, a heap, a calendar queue | `Insert`, `RemoveNext`, `Remove` | the earliest event comes next, none is lost |
| `core/model/default-simulator-impl.cc` | events, time and uid of the last one, list of events handed over | `Run`, `Schedule*`, `Remove`, `Cancel`, `Stop`, `Destroy` | time never goes back; an `EventId` is unexpired exactly while its event is pending |
| `core/model/realtime-simulator-impl.cc`, `wall-clock-synchronizer.cc` | the same under a mutex, a condition, the wall clock | the same, from any thread | no wake-up is lost; what runs is due |
| `he/`, `eht/` | multi-user exchanges, multi-link | trigger frames, OFDMA schedules | as for single-user exchanges |
| PHY, channel, error models | signals under way | receive or not | numerical |

How they interact. All of the MAC runs in one thread under the simulator's event
loop, by direct calls: `HtFrameExchangeManager` asks `QosTxop` for an MPDU,
`MpduAggregator` for more of them, sends the PSDU through the PHY and schedules
a timeout; what it receives, or the timeout, it reports to `BlockAckManager`,
which changes the agreement, its in flight queue and, through shared pointers to
the same MPDUs, the EDCA queue; `WifiMacQueue` calls back into
`BlockAckManager::NotifyDiscardedMpdu` (through its `Expired` trace) whenever it
drops an MPDU whose lifetime is over, which can be in the middle of any of the
above. Between two stations there is only the air. The association manager is called by
the station's MAC and calls it back at the end of a scan; management frames go
through queues of their own, and `TxOk` or `TxFailed` tells the access point
what became of a response. Only the simulators deal with threads: other threads
(emulated devices, distributed simulations) hand events over to the thread in `Run`.

What is hard: the order of events (expiry against exchanges, enqueues against
timeouts), lost frames and responses in every combination, the callback that
changes a queue under its caller, two windows on two stations that are updated
by the same frames under different conditions, and wraparound; timers that are
never cancelled and answers that come when something else is asked; and what
another thread does between two critical sections. `PROJECT.json`
lists these hazards line by line, with the properties that cover each.

## Modules

An operator maps a piece of state to the one a method leaves behind, so that the
same definition serves the component's own module and those that compose it; the
actions are the notifications, or the events of the simulator.

- `SequenceSpace` -- sequence numbers modulo `SeqSpace`, distance, old and new,
  and offsets within a window.
- `BlockAckWindow` -- the ring of class `BlockAckWindow`: cell of an offset,
  clearing loop, advance.
- `TransmitWindow` -- what the three notifications of class
  `OriginatorBlockAckAgreement` make of the transmit window.
- `OriginatorBlockAckAgreement` -- that window with the notifications as actions. `TxWindow` is what it promises: a start and a set of
  acknowledged offsets, without a ring. The first implements the second with
  `acked <- Marked(txWindow)`.
- `BlockAckAgreements` -- a station that is one end or the other, for checking each
  end under any caller; the two share nothing.
- `Ordering` -- the elements of a set by a key, as a map with a `Compare` has them.
- `RecipientBlockAckAgreement` -- scoreboard, reordering buffer, BlockAckReqs,
  and the flush at the end. `status` is "aborted" after a failed assertion.
  The environment may send any MPDU or BlockAckReq that is not ahead of the
  recipient by half the sequence space (`InReach`), which is what the rest of
  the protocol grants it; the link model shows what the real originator sends.
- `BlockAckManager` -- the originator of one established agreement: transmit
  window, in flight queue, EDCA queue, the scheduled BlockAckReq, and the frame
  exchanges that drive it. `ba` gathers what `BlockAckManager`'s methods change,
  so that each method is an operator on it, and a method the code calls in a loop over
  MPDUs is applied by `ForEach`, in their order; `exchange` is `m_psdu` (or `m_mpdu`)
  with the response awaited; `txop` says whether a TXOP may continue.
  - An MPDU is named by the order in which it takes its number. A queue that is
    kept in that order is a set. An MSDU without a number leaves no trace in the
    state: any amount of them may be waiting behind the numbered ones.
  - `Expire` is the clock: MPDUs below `expiredBelow` are past their lifetime.
    It may move at any time, so every place where the code looks at the lifetime
    finds it in either state.
  - The answers of `NeedRetransmission` and `NeedRts` are free choices, as retry
    counters, limits and thresholds belong to the rate manager.
  - `setup` is the configuration of the originator (`Setup`): one of `Setups`,
    chosen at the start, so that one run covers several.
- `BlockAckLink` -- the two ends over a lossy link. `InOrderDelivery` is what
  the agreement promises the layer above, and a property of the link.
  `heard` is whether the recipient owes a response; `acked` and `delivered` are
  history variables.
- `BlockAckHandshake` -- how that agreement comes to be and goes, for one
  destination and TID, at both ends. `originator` is the agreement in
  `BlockAckManager` (its state, its inactivity timer), whether the destination is
  blocked, and the timers under way: `AddBaResponseTimeout`, `ResetBa` and the
  inactivity timers of agreements that no longer know them (`orphans`), none of
  which is ever cancelled. `recipient` is `m_pendingAgreements` and
  `m_agreements`, sets of at most one starting number.
  - Action frames (ADDBA request and response, DELBA) wait in the sender's queue
    and are exchanged one at a time: heard or not, then acknowledged or not,
    retried, discarded after `MaxTries`, or expired. Timers run in between.
  - Of the data there is the next sequence number and the oldest MPDU to be
    retried, from which both starting numbers are taken; numbers do not wrap.
    With an agreement in force data is what `BlockAckManager` makes of it: the
    oldest MPDU to be retried gets no older.
  - `disturbed` and `abandoned` are history variables: the pending agreement lost
    its request or was reset or destroyed; the response was given up unacknowledged.
- `RateLadder` -- what the ARF family promises of a rate: a raised rate is on
  probation, in which its first failure takes it back; otherwise every second
  failure in a row lowers it. `ArfWifiManager` and `AarfWifiManager` are two
  implementations with counters and (growing) thresholds. `AarfcdWifiManager`
  extends the second by the RTS filter: `rts` gathers the station's fields that
  are not AARF's, and each action does what AARF's does, or absorbs the failure.
  `ctsReceived` is whether the CTS of the current frame has been counted; a CTS
  may also come from an RTS that protection asked for (`ErpProtection`).
- `CaraWifiManager` -- one count of failures against two thresholds.
- `OnoeWifiManager` -- credits and decisions. `UpdateMode`, which the code calls
  for each frame and which returns unless a period is over, may take place at any
  time.
- `RateManagers` -- a node that runs one of these managers, as the experiment
  configures it (`--wifiManager` of `src/scratch/figure-7.cc`). An action is one
  report of the frame exchange manager; the rate is an index into the rates both
  stations support. Reports may come in any order, as the channel does what it
  likes. ARF, AARF and AARF-CD share their variables, so that one property,
  `ImplementsRateLadder`, is about all three.
- `BasicServiceSet`, `StaWifiMac`, `ApWifiMac`, `Association` -- a station with one
  link and its access points. `StaWifiMac` is the station and its association
  manager: an action is an event of the simulator, a frame received, or something
  the user does (`MaxChanges`). Timers are modelled by whether they run: how two of
  them are ordered depends on attributes, so any order is possible, except that
  what is scheduled for now (`endScanning`) runs before time goes on.
  `ApWifiMac` is what each access point knows of the station, and the responses in
  its queue; `Association` is the air between them: a request or response is
  heard and acknowledged, heard and not acknowledged, lost, or expires in its queue.
  `TxFailed` is called for a response that is given up as for one that expires: both the
  retry limit and the queue's `Expired` trace end in "DroppedMpdu" (`txop.cc:209-217`,
  `wifi-mac.cc:614-615`, `ap-wifi-mac.cc:1832-1833`). `SendAssocResp` is
  `WifiMacQueue::Insert` in a queue that all stations share: there is room, or room is
  made by wiping what has expired (with its `TxFailed`, after the new state was recorded
  and before the response is in the queue), or the response is dropped. The last is
  silent: for a management frame and a queue with nothing but management frames
  `FcfsWifiQueueScheduler::HasToDropBeforeEnqueuePriv` returns the frame itself, and
  `WifiMacQueue::DoEnqueue` returns (`wifi-mac-queue.cc:419-425`) before
  `Queue::DoEnqueue`, which alone fires `DropBeforeEnqueue` (`queue.h:525`), is called; a
  queue with other frames gives up one of those instead. `lost` is a history variable:
  what became of responses since the last request.
- `EventKey`, `EventAgenda` -- the order of events; what every scheduler promises.
  `HeapScheduler` and `CalendarScheduler` are the two with an algorithm of their own:
  the heap's sinking and rising, the calendar's days, years and resizes.
  `CalendarScheduler` implements `EventAgenda`, and so does `HeapScheduler` until a `Remove`
  has misplaced an event. The map is a set with `IsFirst`. The loops of both are recursive
  functions of the number of turns: `BottomUp` is `Rise` repeated, `TopDown` is `Sink`
  repeated, a change of scheduler is `ChangeOver` repeated.
- `DefaultSimulatorImpl` -- the loop, one step of the main thread being what it does
  between two points where another thread's `ScheduleWithContext` (`HandOver`)
  makes a difference; `pc` says where it is. `handed` and `placed` are history
  variables: the delays asked for and the keys given.
- `EventLoop` -- a simulation with the map under that loop, or with one of the other
  schedulers under the calls a simulator makes of it.
- `RealtimeSimulatorImpl` -- one step is a critical section of `m_mutex`, or what a
  thread does between two of them. A wait (`WallClockSynchronizer::Synchronize`) is
  its end (`deadline`), whether it still sleeps or already spins, and the condition
  other threads set. `Tick` is the wall clock. `stray` and `removed` are history
  variables: events scheduled before the clock had its origin, and whether a thread
  other than the main one has removed an event.
- `MC...` modules and the `.cfg` files instantiate these for TLC; `...Proofs`
  modules hold lemmas and theorems.
- An operator whose comment begins with "Mutant of" is not part of the model: it
  is a variant of the definition after it with a plausible mistake, for checking
  that a property would notice.

## Runs

| Run | Configuration | What it shows |
|---|---|---|
| `agreements` | `BlockAckAgreements.cfg` | originator: the ring implements `TxWindow`, and the window never rests on an acknowledged MPDU; recipient: buffer within its window, the two windows at most one window apart, a BlockAck claims nothing that is not held, MPDUs go up in order |
| `ba_manager` | `BlockAckManager.cfg` | PSDUs with and without RTS/CTS, explicit BlockAckReq or data after a missed BlockAck, data sent with and without asking for a response (a positive BaThreshold): what is in flight is within the window and unacknowledged, numbers given back after a CTS timeout were never on the air; the window is held up by nothing but an MPDU that has expired between an RTS and its CTS, and if there is none it never closes for good (`AllNumbered`) |
| `link` | `BlockAckLink.cfg` | end to end, in TXOPs without protection and behind RTS/CTS without TXOPs: in order, at most once, nothing acknowledged is lost, nothing the originator would still send is unwelcome, nothing is left waiting in the buffer when the originator is done, and without a TXOP limit nothing on its way is more than a window ahead of what the recipient waits for |
| `link_wrap` | `BlockAckLinkWrap.cfg` | finding 1 |
| `handshake` | `BlockAckHandshake.cfg` | however requests, late responses, DELBAs and timers cross: no MPDU still to be sent lies before the window of either end; each acknowledged response finds its pending agreement; a blocked destination is unblocked, but for the ways named in `BlockedIsUnblocked`; an agreement the originator uses becomes established at the recipient, unless the response is given up |
| `handshake_lost_ack` | `BlockAckHandshakeLostAck.cfg` | finding 2 |
| `rate_managers` | `RateManagers.cfg` | ARF, AARF and AARF-CD are rate ladders, though AARF-CD lets failures pass; a rate that fails is left; counts are never past the thresholds they are compared with by equality, which keep their bounds through the overflow of an int; AARF-CD's RTS counter does not wrap around; CARA's rate falls only after a failure with RTS; Onoe decides nothing while a packet is being retried |
| `event_loop` | `EventLoop.cfg` | whatever is scheduled, removed, cancelled and handed over: `IsExpired` is exact, time does not go back, hand-overs keep their order; the calendar queue implements the agenda through resizes and skipped years; the heap implements it until a `Remove` has moved its last event under a later parent, and loses no event afterwards |
| `realtime` | `RealtimeSimulatorImpl.cfg` | while other threads schedule, cancel, remove and stop: no wake-up is lost, an event that runs is due unless a thread has removed another, every event runs, a stopped `Run` returns, no assertion fails; the exceptions are in the properties |
| `realtime_remove` | `RealtimeRemove.cfg` | finding 3 |
| `association` | `Association.cfg` | requests repeated, lost, refused and answered late by two access points, the watchdog and the user at any time: no state without its timer, the AID is that of the access point watched, the access point's record of the station is what its responses have made of it, and the station associates |
| `association_abort` | `AssociationAbort.cfg` | finding 4 |

## Bounds

- The code's sequence space is 4096 and its windows have at most 256 numbers.
  What the code relies on is that four windows fit in the space
  (`WinSizeAssumption`): a window, the window it was, and both again within the
  half that counts as new. The runs take the space just large enough for that
  or a little more, so every behaviour near the wrap and near the border of old
  and new is close by. `agreements` takes a space of 24 with a ring of 4;
  as an agreement starts at any number with the head at 0, all combinations of head
  and start occur.
- `StartingSeq = 10` in a space of 12 puts the wrap in the middle of the MPDUs.
- `MaxMpdu` (4 or 5) exceeds the window (2 or 3) by two at least: the window has
  to advance, by acknowledgment, by discard and by both, for all to be sent.
- `MaxAmpdu` is the window, so that an A-MPDU may fill it.
- `Setups`: `ba_manager` and `link` each take two configurations, which differ in
  all that a setup says (TXOP or not, BlockAckReq or data after a missed BlockAck),
  so that every combination of exchanges occurs that either allows. Their
  `ackDistance` stands for `BaThreshold` times the size of the window: 0, the
  default, for the link in TXOPs, and positive otherwise, so that an MPDU may be far
  enough from the start of the window or not.
- `U16`, the number of values of a `uint16_t`, is a multiple of the space, as in
  the code, and larger than it.
- `MaxRate = 3` leaves room for several steps up and down from both
  ends. Thresholds are small and different from each other, so that either of
  two may be met first, and AARF's maximum is not a power of two times its
  minimum, so that the cap is hit in the middle of a doubling.
- `MaxCount` bounds ARF's counters: large enough for several thresholds to pass.
  `IntLimit` stands for 2^31 and is reached by AARF's timer threshold after a
  few failed probes; `U32` stands for 2^32 and exceeds every RTS window.
- `MaxRetry`, failures of a packet of Onoe, is the default limit of 7; `MaxTx`,
  packets between two decisions, exceeds `Enough`, which is 10 in the code.
- `MaxRequests = 2` and `MaxTries = 2` in the handshake: a request, its response
  and timers of the first attempt meet those of the second, and each frame may
  be sent again or given up. `MaxSeq = 3` leaves numbers for data before, between
  and after the two. `InactivityTimeout` is TRUE: the DELBA occurs.
- `MaxUid` bounds the events of a simulation: four of them with every interleaving of
  the threads in `event_loop` (`MaxUid = 8`, uids start at 4), six with the heap and
  the calendar, which is two levels of the heap below its root, and resizes between
  1, 2 and 4 buckets. `CalendarDelays` has 0, neighbours, and one
  delay longer than a year of the calendar. The code's `m_uid` is a `uint32_t` and
  wraps after 2^32 events, which no run and no proof reaches.
- `RealtimeSimulatorImpl`: two events and two runs, `Epoch` beyond all delays (the clock
  counts from 1970), `SleepMargin` for three jiffies, shorter than a delay, so that
  a wait sleeps, spins or does neither; `Horizon` bounds the free ticks of the
  clock, which goes on all the same while an event is to come or a stopped `Run` sleeps.
- `Association`: two access points, one of which may refuse; queues of two frames, which is
  one more than what is needed for an answer to meet the answer to the next request,
  and a queue that is full of them is met as well (one that is full of other frames may be
  met at any request); one change by the user. `MaxAid = 4` exceeds
  the AIDs in use by two.
- Deadlock is not checked where the system may stop: an agreement is destroyed,
  all MPDUs have been sent, the requests or the uids are used up, a simulator has been
  destroyed, or an assertion has failed. `AllNumbered` checks that
  `BlockAckManager` does not stop early, `EventuallyRuns` and `EventuallyAssociated` that
  the main thread and the station do not. Rate managers stop where the bounds of
  their counters do.

## Fairness

`BlockAckManager` has one liveness property, `AllNumbered`: unless an MPDU expires
between its RTS and its CTS the window does not close for good. It assumes (`Fairness`)

- channel access: if from some time on there is always something to send, an
  exchange starts (backoff is finite; `ChannelAccessManager` is not modelled);
- every exchange ends, by a response or by the timeout scheduled with it;
- the clock moves on, so lifetimes end (`WifiMacQueue::MaxDelay` is finite);
- a BlockAck that is asked for infinitely often is received infinitely often,
  and so is a CTS. These are the strong ones. Without the first the code rightly
  repeats a BlockAckReq for ever: a BlockAckReq has no retry limit as long as
  anything is in flight.

The conditions are written out (`[]<>~enabled \/ []<><<A>>_vars`) in place of
`WF_vars(A)`, as TLC is very slow to evaluate `ENABLED` of actions that fold an
operator over a set; each condition is the guard of the action it belongs to.
`Proceed` is any step that ends or advances an exchange: in state "cts" or
"response" a timeout is always enabled.

`BlockAckHandshake` has two, `BlockedIsUnblocked` and `HalfOpenEnds`. They assume
weak fairness of a side with a frame to send (channel access), of the end of an
exchange (an Ack or its timeout, both scheduled with the frame) and of
`AddBaResponseTimeout` (scheduled when the request is acknowledged). Nothing is
assumed of the air: retries end at `MaxTries`, after which the code gives up.
Nor of the inactivity timer and `ResetBa`, which neither property needs.

`RealtimeSimulatorImpl` has two, `EventuallyRuns` and `StopEndsRun`. They assume weak
fairness of the main thread, which the operating system runs, and of the clock.
Nothing is assumed of other threads; none of them holds the mutex while it waits.

`Association` has one, `EventuallyAssociated`. It assumes weak fairness of the station's
timers (a timer that runs ends), and strong fairness of the air: requests, responses
that are waited for, and beacons during a scan, each sent again and again, get
through now and then, the requests at a time when the access point's queue has room for
the response (`RequestAnswered`: frames leave that queue, by an Ack, by retries that end
or by their lifetime). It allows that the station misses the beacons of the access
point it waits for again and again: nothing restarts the watchdog while it waits.

All other properties are safety properties and use no fairness.

## Findings

1. **A start that is no sequence number** (`link_wrap`).
   `RecipientBlockAckAgreement::NotifyReceivedMpdu` computes `SN - m_winSizeB + 1`
   into a `uint16_t`. For an MPDU beyond the buffer's window with a small
   sequence number this is 65536 less something and not a number below 4096. With
   assertions on, `GetDistance` stops the program; with assertions off, the
   distance happens to be right (65536 is a multiple of 4096) but `m_winStartB`
   keeps the wrong value. The link run shows that the real originator brings this
   about: an MPDU given up within a TXOP, the BlockAckReq passed over, then data
   just after the wrap. `NoAssertFailsWithoutTxops` proves that it takes a TXOP
   limit: with one of 0 the assertion never fails, however many MPDUs there are.
2. **An agreement only one end has** (`handshake_lost_ack`). The originator uses an
   agreement from the ADDBA response on, the recipient from the Ack of that
   response on. If the Ack is lost, an A-MPDU sent before the response is
   repeated arrives at a recipient whose `EndReceiveAmpdu` asserts that the
   agreement is there and takes it from the map without looking. `HalfOpenEnds`
   says that the disagreement is temporary otherwise.
3. **An event removed under a sleeping simulator** (`realtime_remove`). The real time
   simulator waits for its first event without the lock. Another thread may remove that
   event meanwhile (`RealtimeSimulatorImpl::Remove` takes the lock, but signals nobody),
   and the main thread, convinced that "it is time to execute whatever event is at the
   head of this list", runs an event that is not due, or fails the assertion that
   there is one. `DueUnlessRemoved` shows that removal is the only way.
4. **A request to nobody** (`association_abort`). When the beacon watchdog ends while the
   station waits for a response, the BSSID is forgotten and the timer of the request
   is not: it ends in a fatal "No BSSID set". By the attributes' defaults, an
   access point that falls silent after its beacon was heard is enough, if the
   scan that follows finds no other.

Met on the way; the first three contradict a comment but no run is spent on them:

- `RecipientBlockAckAgreement::Flush` is "called when a Block Ack agreement is destroyed to
  flush the received packets". It passes up only what lies before the scoreboard's start
  and the first run of the buffer: MPDUs behind a hole, all of them acknowledged,
  disappear with the agreement.
- An MPDU whose lifetime ends between its RTS and its CTS is wiped from the queue as
  "never transmitted", transmitted nevertheless, and if not acknowledged forgotten
  without the transmit window being moved over it, though `NotifyDiscardedMpdu` is to
  "make the transmit window advance beyond the discarded frame". With all numbers of
  the window used the agreement is stuck until it is torn down. `OnlyOvertakenHoldUp`
  shows that this is the only way; the history variable `overtaken` keeps such MPDUs.
- With a positive `BaThreshold`, `WifiDefaultAckManager::IsResponseNeeded` sends data
  without asking for a response as long as "other" frames of the agreement are
  queued, and counts those of the A-MPDU it decides about: an A-MPDU of two, sent last,
  is followed by no response and no BlockAckReq.
- `HeapScheduler::Remove` lets the event that takes the removed one's place sink, never
  rise. If it belongs higher up, it and its subtree are handed out late and simulated
  time goes back, against "the earliest event from the event list"
  (`core/model/scheduler.h`). `HeapIsAgenda` shows that it takes such a `Remove`;
  the default scheduler is the map, so none of the experiments meets it.
- `RealtimeSimulatorImpl::Run` sets `m_running` before the clock has its origin: an event
  another thread schedules in between is due when the clock has run as long as since 1970
  (`stray`, which both liveness properties leave out). In a second `Run` the clock
  starts at 0 again and `m_currentTs` does not, so an event scheduled from another thread may
  fail the assertion that it is not in the past. `Stop` wakes nobody: a `Run` that
  waits returns at its next event.
- `ScheduleRealtimeWithContext` and its siblings leave `m_context` of the key
  unset; no order depends on it.
- An association request that is refused sends the station straight to scanning, and what
  it finds may be the same access point again; `REFUSED` is left within the same event,
  although the header lets it last until the user acts. A late refusal by an access point asked
  before is taken for one by the current one. A late success fails the assertion that it
  is of the BSSID (`AidIsOfBssid` is about what is left).
- An access point's `TxFailed` undoes whatever the station's state is waiting for: when a
  response has been heard and only its Acks were lost, or an older response expires while
  a later one is queued, the station is associated and the access point's record says it
  is not (the second case of `BothEndsAgree`). A response that a full queue drops is
  reported to nobody: if the station was associated by an earlier one, its repeated
  request leaves the record at `WAIT_ASSOC_TX_OK` with nothing on its way that would
  end it (the third case).
- ARF compares its timer by equality at successes only, but counts it up at
  failures as well, so it may pass its threshold, after which only the count of
  successes raises the rate (`SuccessesSpeedUp`) until the timer starts over.
- In all of the ARF family a raised rate falls back once; if the rate below fails
  too, nothing lowers it further before a success (in `RateLadder`: in recovery
  only the first failure counts).
- With `TurnOnRtsAfterRateIncrease` false, AARF-CD misses even that fallback: the
  first failure after an increase turns RTS on and is counted, and the
  recovery branch asks for a count of 1. The theorems about AARF-CD's ladder
  therefore assume the default.
- Onoe's lower rates for late retries are not monotonic near the lowest: at the
  second lowest rate the fifth and sixth attempts are one step down and the
  seventh, which has no room for two, is back at the first attempt's rate.
- An ADDBA request whose lifetime ends in the queue leaves its destination
  blocked for good: `NotifyDiscardedMpdu` returns for what is not QoS data, and no
  response timer has been started. A `ResetBa` timer of an earlier request, or
  the inactivity timer of an earlier agreement, can do the same to an agreement
  that is pending: it is reset or erased without unblocking, and its response
  timer then finds nothing pending. `BlockedIsUnblocked` shows that there are no
  other ways; a response that still arrives unblocks in all of them.
- A late ADDBA response may give the originator a starting number beyond the one
  it asked for, as data was sent in between. The recipient's window then starts
  before the originator's, which `StartsCoverUnsent` shows is the harmless order.
- The recipient's inactivity event never fires: it is cancelled by the destructor
  of the temporary it is scheduled in (`ht/ht-frame-exchange-manager.cc:355`).

## Proofs

`BlockAckWindowProofs` has the lemmas: arithmetic of `Plus` and `Distance` in a
sequence space of any even size, the cells of a ring (`CellInjective`), and what
`Clear`, `Advance`, `Mark` and `Reset` do to the set of marked offsets. The main
one, `AdvanceWindow`, says that a ring advanced by `n` is marked at `d` exactly if
it was marked at `d + n`.

`BlockAckAgreementsProofs` has the theorems about both ends of an agreement. Those
about the originator are for every `SeqSpace` and `WinSize` that satisfy
`SeqSpaceAssumption` and `WinSizeAssumption`:

- `TypeCorrect`: `Spec => []TypeOK`;
- `NeverStartsAcked`: `Spec => []StartsUnacked`;
- `RingImplementsTxWindow`: `Spec => ImplementsTxWindow`.

The inductive invariant is `TypeOK /\ StartsUnacked`: `TypeOK` alone does not say
where the loop of `AdvanceTxWindow` stops, and `StartsUnacked` needs it to know
that the ring has a first unmarked offset. One lemma, `StepRefines`, takes each
notification through the operators (`AdvanceThenSettle`), concludes both
parts of the invariant and exhibits the abstract step it is.

Those about the recipient are also for every set of MPDUs, and any order of MPDUs and
BlockAckReqs that are in reach (`InReach`):

- `BufferStaysWithin`: `RecipientSpec => []BufferWithinWindow`;
- `WindowsStayTogether`: `RecipientSpec => []WindowsTogether`;
- `AckedStaysHeld`: `RecipientSpec => []AckedIsHeld`;
- `GoesUpInOrder`: `RecipientSpec => ForwardsInOrder`.

The scoreboard and the buffer each have a window, moved by different conditions of one
call, so neither property is inductive without the other. `IInv` measures both from the
scoreboard's start: nothing in the buffer is beyond the scoreboard's window
(`BufferReached`), and a marked number is either behind the buffer's window or buffered
(`MarkedIsHeld`, which is `AckedIsHeld` in distances). `ReleaseWindow` and `SettleStep`
say what the loops that forward MPDUs leave, `ScoreboardMpdu` and `ScoreboardBar`
what a frame makes of the scoreboard; `AdvanceWindow` of `BlockAckWindowProofs` does
the rest. What goes up is `Ordered` (module `Ordering`): the elements of a set by the rank of
a key, which the code's `Compare` is. `RankOrder` and `OrderedMeans` say that it is a sequence
that increases; the keys are distances, and they tell MPDUs apart since no two numbers
in the buffer are equal. `ReleaseOrder` puts the two parts of a release together. The
proof corrected the property: it said that a window's start moves by less than half
the sequence space, and for a window of one MPDU, which the run does not have, it moves by
exactly half when the number half the space ahead but one arrives. What it leaves is
still old to it, and that is what the property says now.

`BlockAckHandshakeProofs` is about the handshake, for any number of requests, tries and
timers and any loss:

- `NothingUnsentIsOld`: `Spec => []StartsCoverUnsent`;
- `ResponseHasAgreement`: `Spec => []ResponseFindsPending`.

`StartsCoverUnsent` is not inductive: under an agreement an MPDU may come back to be
retried that is older than the first of now. What never falls is `Floor`, the start of
the originator's agreement if it has one and the first number if not; `IInv` says that
no start the recipient knows of, or that a request on its way asks for, is beyond it.
`AnswersInv` is `ResponseFindsPending` with the type of the queue, and `AirInv` says that
what is on the air is the head of a queue. Actions that change one queue go through
`QueueStep`, those that change only data through `DataStep`.

`BlockAckLinkProofs` is first about the originator alone, for every sequence space, window,
number of MPDUs, size of A-MPDUs and set of configurations, any loss, any failed RTS
and any moment at which an MPDU expires:

- `OriginatorIsSound`: `Spec => []IInv`, the inductive invariant;
- `InFlightStaysWithinWindow`: `Spec => []InFlightWithinWindow`;
- `NumbersStand`: `Spec => []NumbersNotReused`;
- `NoneElseHoldsUp`: `Spec => []OnlyOvertakenHoldUp`.

Modulo `SeqSpace` every number is both before and after every other, so none of the three
can be inductive: that an MPDU in flight is within the window needs that it was not
overtaken by a whole turn. `IInv` therefore places the window among the MPDUs themselves:
there is an MPDU `S` with which it starts, and an MPDU `N` (`Unsent`) before which all has
been on the air and from which on nothing has. `Sound(o, S, N, M, excused, held, P)` says what the record
`o` then looks like. MPDUs in flight lie in `S .. N - 1`; whatever lies there is queued,
acknowledged or excused; what is queued below `N` is in flight or to be retried; `N` is at most a
window beyond `S`; and nothing queued, nor in the exchange under way (`held`), is so far
behind that its distance could be taken for that of a new one. `excused` are the MPDUs that a
method still has to report, or that were overtaken by their expiry. From there the proof goes
up in three layers:

- windows: `Settles` says where the loop of `AdvanceTxWindow` stops, in MPDUs, and
  `DiscardedSlides`, `AckedSlides` what a notification makes of the window (`SlidTo`);
- methods: one lemma each (`DiscardSound`, `AcknowledgeSound`, `HandleSound`, `StoreAll`,
  ...), and `ForEachKeeps`, `ForEachSound` for the loops: what holds of the pair of
  MPDU and record at each turn holds at the end;
- actions: one lemma each (`SendDataKeeps`, `CtsTimeoutKeeps`, ...).

That `CtsTimeout` gives back only numbers that were never on the air is the case that
ties them together: while a CTS is awaited, what it would give back is exactly what lies from `Unsent` on.

The same module is then about both ends and the link, under any loss of frames and
responses:

- `LinkIsSound`: `LinkSpec => [](SpaceSuffices => LinkIInv)`, the inductive invariant;
- `NothingAckedGetsLost`, `PendingStaysWelcome` and `NothingStaysWaiting`:
  `LinkSpec => [](SpaceSuffices => X)` for `NothingAckedIsLost`, `PendingIsWelcome` and
  `NothingLeftWaiting`;
- `AgreementDeliversInOrder`: `SpaceSuffices /\ LinkSpec => DeliversInOrder`, the
  refinement of `InOrderDelivery`;
- `RecipientStaysWithinReach` and `NoAssertFailsWithoutTxops`, for any number of MPDUs:
  with a TXOP limit of 0 what is on its way is old or at most a window ahead of what
  the recipient waits for, and no assertion fails.

`SpaceSuffices` has two parts. `4 * WinSize < SeqSpace` is what the code grants:
`SetBufferSize` asserts that a window has at most 256 numbers, of 4096. (Were it
equal, a BlockAckReq could be half the space ahead of the scoreboard, which takes it for
old.) The other is needed only with a TXOP limit: there `MaxMpdu < SeqHalf`. Within a TXOP
a BlockAckReq that does not fit is passed over and data goes first, and each time the
recipient falls behind by what the originator gave up. What bounds that in the code is the
length of the TXOP, which is not modelled; in its place stands that there are fewer MPDUs than
half the space. The theorems without a TXOP limit, where a BlockAckReq always goes before
data, are for any number.

None of these properties is inductive, for both ends speak of numbers modulo `SeqSpace`, and each has
its own idea of where the agreement is. `Link(B, R, S, T)` places all of them among the MPDUs: the
recipient waits for `B`, its scoreboard starts at `R`, the originator's window starts at `S`, and `T` is
what a BlockAckReq on its way asks for (0 if there is none). What relates them: the scoreboard is
no more than a window behind, `R <= B <= R + WinSize`; everything before `B` that the originator may
still transmit or have acknowledged has gone up; and everything before `S` has gone up, is buffered,
or will be told of, as a BlockAckReq is scheduled or on its way. The last part is knowledge the originator has
of the recipient, and it is what its every method has to keep: so its invariant takes a parameter
(`P` of `Sound`), which is `Free` when the originator is alone and `Told(T, B)` in the link, and each
lemma about a method is proved once for both. On the recipient's side `Hears(B, C, U, H)` says
what a frame makes of it that moves it from `B` to `C`; `KeepHears` and `ReleaseHears` are its two
cases, `HearLinks` and `HearBarLinks` the actions.

`RateManagersProofs` is about the rate managers, for every number of rates and every
threshold, factor and window. For a node with any of them:

- `ThresholdsStayInRange`: `ManagersSpec => []ThresholdsInRange`;
- `SuccessesAlwaysSpeedUp`: `ManagersSpec => []SuccessesSpeedUp`;
- `ManagersKeepRtsCounted`: `ManagersSpec => []RtsIsCounted`;
- `CaraCountersStayBounded`, and from it the action property `CaraTriesRts`:
  `ManagersSpec => CaraProbesBeforeFalling`;
- `OnoeDecidesBetweenPackets`: `ManagersSpec => OnoePacketKeepsRate`;
- `ManagersAreRateLadders`: `ManagersSpec => ImplementsRateLadder` and
  `ManagersSlowDown`: `ManagersSpec => []FailuresSlowDown`, under the assumption
  `TurnOnRtsAfterRateIncrease` (see under Findings why it is needed);

and for stations that run AARF or AARF-CD by themselves, `AarfIsRateLadder`,
`RtsStaysCounted`, `AarfcdIsRateLadder` and `AarfcdSlowsDown`.

`LadderInv` strengthens `FailuresSlowDown` by types and by `recovery => MaxRate > 0`:
without it the induction fails at a station with one rate, which can never be on
probation. `FilterInv` says when RTS is off: never at the start of a probation,
and otherwise only after an even number of failures. One lemma per handler
(`FailedWithRts`, `FailedWithoutRts`, `Succeeded`, `CountedDown`) says what it makes
of the filter; `FailureStep` and `SuccessStep` say what it makes of the ladder.

`EventLoopProofs` is about the event loop, for all delays and any number of
events (`MaxUid` and `SchedulerMaxUid` are arbitrary):

- `TimeAdvances`: `Spec => []PendingIsLater`;
- `ExpiryIsExact`: `Spec => []ExpiredIsGone`;
- `HandOverOrder`: `Spec => []HandOversInOrder`;
- `HeapKeepsAgenda`: `EventLoopSpec => HeapIsAgenda`;
- `CalendarKeepsAgenda`: `EventLoopSpec => CalendarIsAgenda`;
- `EventLoopRunsSimulator`: `EventLoopSpec => Spec`, by which the first three hold of the
  event loop, whichever scheduler it has.

The first three are proved by one induction. None of them is inductive by itself: that an
`EventId` is expired only when its event is gone needs that uids grow (`UidsUsed`) and
that what is pending is later than the current event, and both need to know what the
list of events handed over contains at every moment, also while it is being refilled
behind the main thread's look at the flag (`ListInv`). `PlacedInv` strengthens
`HandOversInOrder` by the fact it rests on: the times at which two events were taken
from the list are in the order of the hand-over. One lemma per action
(`InsertStep`, `RemoveStep`, `ProcessOneEventStep`, `ProcessEventsStep`, ...) says that it
keeps all of them.

The two schedulers are proved to refine `EventAgenda`, each step to a step or a stutter.
What makes this more than invariance is that most of what they do is loops over
data of any length. A loop is a recursive function of the number of its turns;
`LoopExists` says, by induction on the turns, that a loop whose turns stay in a set
of states has a course (without it a recursive definition says nothing), and `SameLoop`
that it has only one. What a loop achieves is then an induction on that course.

- The heap. `HeapInv`: no uid is there twice, and unless `misplaced` no item precedes its
  parent (`Ordered`). While an event rises or sinks the heap is in order but for
  that event: `OrderedBelow` and `OrderedAbove` say what must hold around it, that its
  children come after its parent included, for the next turn to mend one place without
  breaking another (`RiseOrders`, `SinkOrders`). `WithoutItem` is the case of `Remove`: the event
  that takes the place only sinks, so the order comes back if that event does not
  precede its new parent, the condition `misplaced` records. `RootIsFirst` needs the
  least item out of order (`NatMin`).
- The calendar. `CalendarInv` strengthens the agenda by `Shape`: each bucket is sorted and
  holds the events of its days only (`Filed`), none is due before the one taken last, and
  `lastBucket` and `bucketTop` are the day of that one (`AtItsDay`). From these follows that
  the first day of the coming year with an event due in it has the earliest event of all, and
  that when there is none the earliest of the heads is (`DoRemoveNextGives`); the arithmetic
  is in `DaysInOrder`, `SameDay` and `BucketAfter`. A resize keeps all of it for every
  width of a day (`ResizeKeeps`), since `InsertAll` files bucket after bucket in an array opened at the time
  of the event taken last (`HasUpto`); that the width is positive needs that there are as many
  events as samples are taken (`SamplesType`, `WidthType`), which is why `Counted`, the queue's
  size, is part of the invariant.

`AssociationProofs` is about the station and its access points, for any number of
them, any length of the queues, any loss and any refusals:

- `TimersRun`: `Spec => []NeverStuck`;
- `AidAgrees`: `Spec => []AidIsOfBssid`;
- `RecordsAgree`: `Spec => []BothEndsAgree`.

What an access point has recorded and what the station believes are related only
through responses that may be late, repeated or about to fail. `ResponsesTrue` says that a
success on its way is about the AID recorded now, `RecordsTrue` that an access point
with an AID for the station has recorded the association, or has undone it and then a
response has failed, or still waits and then none has failed and one is queued or was
dropped (`SendAssocRespGives` says so of the three ways into the queue); with
them `AssociatedKnown`, the property of the station, is inductive. `Watched` is what
`NeverStuck` needs of the beacon watchdog in states that it does not mention.

`RealtimeSimulatorImplProofs` is about the real time simulator, for all delays, any
precision of its sleep and any number of events and calls of other threads:

- `NoLostWakeUp`: `Spec => []WakesInTime`;
- `HeadIsDueAfterWait`: `Spec => []DueUnlessRemoved`;
- `AssertionsHold`: `Spec => []AbortsOnlyAfterRemoval`.

`NotBefore` and `Paced` keep the events after the current time and the current time
behind the wall clock; `AwaitsEvent` says what the main thread may count on at each
place where it has left the mutex and come back, as long as no event was removed.

What the theorems assume of constants are the named assumptions of the modules
(`BlockAckManagerAssumption`, `RateManagersAssumption`, `SimulatorAssumption`,
`EventLoopAssumption`, `RealtimeAssumption`,
`QueueAssumption`, `StationAssumption`, and `AidAssumption`: the
code aborts when no AID is free), which TLC evaluates. Two are
assumptions of the theorems themselves: `TurnOnRtsAfterRateIncrease`, above, and
`RecipientAssumption`, that MPDUs have numbers of the sequence space and that it divides
the range of `uint16_t`, which the modules that instantiate the recipient for TLC
assume as well (`BlockAckAgreements`, `BlockAckLink`).

Model-checked only: liveness (`AllNumbered`, `BlockedIsUnblocked`, `HalfOpenEnds`,
`EventuallyRuns`, `StopEndsRun`, `EventuallyAssociated`), which is beyond the prover. Every
other property of the passing runs is a theorem.

## Plan

1. Done: the windows, the recipient, the originator's manager, the link; the
   originator's theorems.
2. Done: the handshake at both ends. Left: its composition with the manager, to
   follow in flight MPDUs and buffered MPDUs through the end of an agreement, and
   agreements in both directions at once, whose discards meet
   (`ht/ht-frame-exchange-manager.cc:693`).
3. Done: ARF, AARF, AARF-CD, CARA and Onoe. Left: PARF and APARF, which adjust
   power as well, and RRAA's adaptive RTS window.
4. Done: association of a station with one link. Left: the setup of several links,
   where the refusal of one and the loss of another's beacons meet.
5. Done: the schedulers, the default and the real time simulator, the theorems about
   the schedulers and the default one. Left: the real time simulator as a refinement of an agenda with a
   clock, and the distributed simulators of `src/src/mpi`.
6. Done: the theorems about the recipient, the originator, the link, the handshake, the rate
   managers, association and the real time simulator. Left: the link with the length of
   a TXOP in place of the bound on MPDUs, and the link's theorems through the end of
   an agreement and its next beginning, with 2.
7. The recipient refined against a specification on unbounded sequence numbers.

The order is that of importance: every experiment runs 1; 2 sets it up; 3 is
what the repository's own study compares; 4 and 5 come before and beneath all of it. Modules meant for proofs use no
RECURSIVE operator.

## Not modelled

The statistical rate managers (floating point and random draws), the PHY and the
channel (numerical; their effect on the MAC is the loss in `BlockAckLink`),
backoff and TXOP timing (simulated time), multi-user and multi-link exchanges
(variants of the exchanges here), frame serialization, and the rest of ns-3: its
other devices and protocols, none of which the experiments run. Within the modelled parts: fragments,
A-MSDUs (one MPDU to these modules), group addressed frames, CTS-to-self, PIFS
recovery, several receivers or TIDs sharing a queue (agreements do not interact
except through the order of service), a refused ADDBA request and a DELBA by the
recipient, neither of which this code sends; the association of several links at
once, Disassociation frames, which nothing here sends (the access point would erase
the station from its list and go on using the iterator, `ap-wifi-mac.cc:1540`), and the
data of associated stations; the reverse mode of the calendar queue, the list and
priority queue schedulers (a standard container each), the real time simulator's hard
limit, and the wrap of `m_uid`. `PROJECT.json` gives the reason for
each component.
