# Formal model of the rp-pppoe client Discovery stage

This directory holds TLA+ models of `src/src/discovery.c`, the client side of
PPPoE Discovery (RFC 2516): PADI → PADO → PADR → PADS, with retries,
exponential backoff, persistent mode, probe mode (`-A`) and the `-k`
session kill. It also holds the TLC configurations that check these models
and the TLAPS proofs about them.

## 1. The system and its parts

`discovery.c` is single-threaded. Its parts and how they interact:

| Part (spec §) | Code | What it does |
|---|---|---|
| Discovery state machine (4.D) | `discovery()` 736-819 | PADI loop, then PADR loop. Counts attempts against `MAX_PADI_ATTEMPTS`, doubles the timeout, and either resets (persist) or gives up. |
| Criteria evaluator (4.B) | `packetIsForMe`, `parseForHostUniq`, `parsePADOTags`, `parsePADSTags`, the checks in `waitForPADO`/`waitForPADS` | Decides whether a received frame is for us, from whom, whether it matches the AC-Name/Service-Name filters, and whether it has error tags. Captures the AC-Cookie and Relay-Session-Id into `conn`. |
| Timed receiver (4.C) | `time_left`, the `do … while` loops of `waitForPADO`/`waitForPADS` | Turns an absolute deadline into `select()` intervals, retries `select()` on `EINTR`, and loops on frames that are not acceptable. |
| Frame codec (4.A) | `sendPADI`/`sendPADR` build TLVs; `parsePacket`, `sendPacket`, `CHECK_ROOM` are not under `src/` | Byte layout of frames. |
| Session outputs (4.E) | `conn->session`, `peerEth`, `discoveryState` on return | What the session stage uses. |
| Packet I/O (4.F) | raw socket, not under `src/` | The Ethernet segment. |
| PLUGIN build (4.B, 4.E) | the `#ifdef PLUGIN` blocks of `parsePADOTags`, `parsePADSTags`, `sendPADI`, `sendPADR`, `waitForPADO`, `discovery()` | RFC 4638 PPP-Max-Payload negotiation against pppd's LCP MRUs, and the `req_peer` MAC filter. |

The state machine calls the receiver twice per pass: once for PADO, once for
PADS. The receiver hands each frame to the criteria evaluator. The evaluator
writes `peerEth`, `cookie`, `relayId`, `numPADOs` and `discoveryState`, which
the state machine then reads, both to decide whether to loop and to build the
PADR.

What makes this code hard to test:
- The network may deliver any frame at any time: PADOs from several ACs in any order, duplicates, losses, and frames for other hosts.
- State captured from one frame (cookie, relay id) is used when a later frame is sent.
- Persistent restarts keep state from the previous round.
- Timeouts race late answers.
- The receiver does wall-clock arithmetic across second boundaries.

## 2. Modules

### `PPPoEDiscovery.tla`: state machine and criteria evaluator

**State.** The state is `conn`'s discovery fields (`discoveryState`, `peerEth`, `cookie`, `relayId`, `numPADOs`, `session`, `skipDiscovery`, `killSession`) and `discovery()`'s locals (`padiAttempts`, `padrAttempts`, `timeout`). To these the model adds:
- `pc`, where `discovery()` is;
- `outcome`, whether it returned or which `exit()` it called;
- four ghosts: `lastSent` (the last frame put on the wire), `offer` (the PADO selected since the last PADI), `pads` (the PADS that set up the session) and `offered` (a well-formed PADO was counted).

**Frames.** A frame is abstracted to what the code reads: the code, the MACs, and the value of each tag, with `NoTag` meaning the tag is absent. Each tag value comes from a small constant set.

**Actions.** There is one action per outcome of each code path:
- `DiscoverySkipped`, `DiscoveryStart`;
- `SendPADI` (the attempt count, the persistent reset, `sendPADI` and arming the wait), `PADIGiveUp`;
- `PADOErrorExit`, `PADODropped`, `PADOCounted`, `PADOTimeout`, `EndPADIIteration` (backoff, loop test and probe break);
- `SendPADR`, `PADRRestart` (`goto SEND_PADI`), `PADRGiveUp`;
- `PADSRejected`, `PADSAccepted` (taking the session id, the final backoff and the return), `PADSTimeout`;
- `SelectError` (`fatalSys`).

The code after the PADI loop (probe exit, or entering the PADR loop) is `LeavePADILoop`. It is part of every action that leaves the loop.

**Network.** Any frame of `Frames` may arrive at a wait, and a wait may always time out. This covers lost, duplicated, reordered and forged frames. Frames the code drops without any state change (bad length, not for us, wrong code) are stutter steps.

**Fairness.** `WF_vars(EngineStep)` is assumed for the engine's own steps (send, give up, time out, back off). The process runs, and every `select()` deadline eventually expires, so the code justifies this. Frames and `select()` errors come from outside and have no fairness.

### `TimedReceiver.tla`: the receive loop against the wall clock

**Time.** The clock is counted in ticks, `USEC_PER_SEC` ticks per second (4 in the runs). A `struct timeval` is a record `[sec, usec]`.

**Operators.** `TimeLeft` translates `time_left()` field by field. `ValidTimeval` is what `select()` accepts.

**Actions:**
- `Enter` sets `expire_at`.
- `LoopTop` calls `time_left`.
- `SelectTimesOut`, `SelectReady`, `SelectInterrupted` and `SelectFails` are the outcomes of the `select()` retry loop.
- `ProcessFrame` handles a frame, which either loops or is accepted, while the clock advances by up to `MaxLag` ticks.

**Linux behaviour.** The constant `SelectUpdatesTimeout` selects whether `select()` writes the unslept time back into `tv`, as Linux does.

### `DiscoveryAbstract.tla` and `PPPoEDiscoveryRefinement.tla`: what discovery promises

`DiscoveryAbstract` has no frames, timers or counters. Its state is:
- a phase (`Soliciting`, `Requesting`, `Session`, `Ended`);
- the AC selected since the last solicitation (`peer`);
- the AC the last request went to (`target`);
- the session id.

Its actions are `Solicit`, `Select(a)`, `Request`, `Establish(s)` (only when `target = peer`), `Skip` and `End`.

`PPPoEDiscoveryRefinement` maps `discovery()` onto it:
- **phase:** read off `discoveryState`, with every exit short of a session becoming `Ended`;
- **peer:** `peerEth` once a PADO has been selected;
- **target:** the destination of the last frame sent, if that frame was a PADR;
- **session:** `conn->session`.

`AbsSpec == Abs!Spec` is the property.

### `PPPoEPlugin.tla`: the PLUGIN build, composed with the engine

This module EXTENDS the core module. Each of its actions is a core action conjoined with what the `#ifdef PLUGIN` code in the same handler does.

**State.** The PLUGIN state is:
- `allowMru` and `wantMru` (`lcp_allowoptions[0].mru`, `lcp_wantoptions[0].mru`);
- `seenMaxPayload`;
- ghosts: the Max-Payload tag of our last PADI or PADR, of the selected PADO and of the accepting PADS, and `advertisers` (the sources of the tags acted on since the last PADI).

**Frames.** A received item is a core frame plus the value of its Max-Payload tag (from `MaxPayloadValues`, or `NoTag`).

**Actions.**
- `ParseMaxPayload` is the tag case of both parsers: a tag of at least 1492 lowers both MRUs to it and sets `seenMaxPayload`.
- `PSendPADI` and `PSendPADR` offer `MIN(allow, want)` when it exceeds 1492. `PSendPADI` also clears `seenMaxPayload` on entering `waitForPADO`.
- `ReqPeerOK` skips a PADO from another MAC before its tags are parsed.
- `PPADSAccepted` includes the clamp to 1492 after the PADR loop, which applies unless a tag was seen.
- In `PPADOErrorExit`, the tag is acted on or not, depending on whether it came before the error tag.

**Fairness.** The fairness is the core model's: `WF_allVars(PEngineStep)`.

### MC modules

`MC_PPPoEDiscovery.tla` instantiates the core model with small sets:
- two ACs (`a1`, `a2`) and a broadcast source;
- our MAC and one other host;
- one Host-Uniq, two AC-Names (one matching the filter, one not), one cookie, one relay id and one session id.

The runs use `MAX_PADI_ATTEMPTS = 3` (the bound in `pppoe.h`), `DiscoveryTimeout = 1` and `MaxPADOs = 2`.

`MC_PPPoEDiscovery.tla` EXTENDS `PPPoEDiscoveryRefinement`, so that the refinement property can be named in a cfg. `MCZeroFrameSrcs` adds a sender whose source is the zero MAC, `00:00:00:00:00:00`. That is the value `conn->peerEth` holds before any PADO is selected. Runs `plugin` and `plugin_reqpeer` use it.

`MC_PPPoEPlugin.tla` adds the Max-Payload values 1400, 1500 and 1600:
- one value below 1492, which is ignored;
- one value equal to the initial MRUs (1500);
- one value above them.

`MC_TimedReceiver.tla` runs the receiver with `Timeout = 1` s, a clock bound of 12 ticks (3 s) and a lag of up to 2 ticks.

## 3. Runs

| Run | Expect | What it shows |
|---|---|---|
| `persist` | pass | `TypeOK`; `SessionWithChosenPeer` (a session is with the AC whose PADO was selected after the last PADI, the accepting PADS came from it and carried our Host-Uniq, and the session id is that PADS's); `NoPADRWithoutOffer` (every PADR goes to the selected AC). Checked across PADR retries and persistent restarts. |
| `oneshot` | pass | `Termination`: without persist, `discovery()` always ends. |
| `probe` | pass | `ProbeOutcome`: `-A` never sends PADR, and exits with success iff a well-formed PADO for us was seen. |
| `receiver` | pass | `NoEarlyTimeout`, `NoOverrun`: no timeout before the deadline, and `select()` is never asked to sleep past it, across `EINTR`. |
| `refine` | pass | `AbsSpec`: in persistent mode (one AC-Name filter off, up to three PADOs per pass), every behaviour of `discovery()` maps to a behaviour of `DiscoveryAbstract`. |
| `plugin` | pass | `MruWithinAdvertised`: in the Session state, both MRUs are at most the Max-Payload value of the selected PADO and of the accepting PADS, and the smaller one is at most the value our last PADR offered. The run is not persistent (old-API pppd, where `persist` is pppd's option), so the error exit is reached. A sender may use the zero MAC. |
| `plugin_reqpeer` | pass | `ReqPeerHonoured`: with `req_peer = a1`, any session is with `a1`, from a PADS of `a1`. The run is persistent, as new-API pppd always is: `discovery.c:47` sets `persist = 1`. A sender may use the zero MAC. Without persist the property fails through finding 1's path. |
| `plugin_mru` | violation | `MruCapUnlessPeerAdvertised` fails (finding 5). |
| `oneshot_padr` | violation | `NoPADRWithoutOffer` fails without persist (finding 1). |
| `cookie` | violation | `PADREchoesOfferCookie` fails (finding 2). |
| `sentinel` | violation | `SentinelAnyService` fails (finding 3). |
| `timeleft` | violation | `SelectGetsValidInterval` fails (finding 4). |

**Deadlock.** The discovery runs disable the deadlock check: `pc = "Done"` is `discovery()` returning or the process exiting, a real stop. The receiver run also stops, once the wait has ended.

**Bounds.**
- Three attempts with two ACs let every path happen: a timeout in every pass, a selected and an unselected PADO in one pass, a PADS from the wrong AC, an errored PADS, persistent reset of both loops, and give-up of both loops.
- `MaxPADOs = 2` allows two counted PADOs (one per AC) in a pass.
- In the receiver, 12 ticks with 4 per second cover deadlines at every sub-second offset, borrows, exact-second deadlines, and lag across a second boundary after the deadline.

**Mutants.** Each property of a passing run has a mutant: a plausible bug in the mapped code that makes TLC report it (see `PROJECT.json`).

## 4. Findings

1. **PADR after PADI exhaustion** (`discovery.c:762`). With `persist` off, `break` leaves the PADI loop and the code falls into the PADR loop. It sends up to three PADRs to `peerEth = 00:00:00:00:00:00`. Spec §8.5 says no PADR is sent.

   The same path can end in a session with the zero MAC. The source check at 697 accepts a PADS from `00:00:00:00:00:00`, and `discovery()` returns in the Session state with no PADO ever accepted. The spec says `peer_mac` stays zero until a PADO is accepted (§3) and that exhaustion returns without a session (§8.5). In the PLUGIN build with old-API pppd and persist off, the path also bypasses `req_peer`, which is checked only on PADOs (`:486`).

   No kept run shows this. It was seen by checking `MC_oneshot.cfg` with `FrameSrcs <- MCZeroFrameSrcs` and `INVARIANT SessionWithChosenPeer`, and `MC_plugin_reqpeer.cfg` with `Persist = FALSE`; TLC reports each property violated.
2. **Stale AC-Cookie** (`:197`, `:211`). `parsePADOTags` stores the cookie and relay id of every parsed PADO, including ones that the AC-Name filter rejects or that lack tags, and never clears them. The PADR then echoes a cookie that the selected AC never sent. Spec §8.4 says the PADR echoes the cookie iff the accepted PADO had one.
3. **Service-Name sentinel** (`:182`, `:569`). `NO-SERVICE-NAME-NON-RFC-COMPLIANT` omits the Service-Name from the PADI, but it is still used as a filter on PADOs and is sent in the PADR. The spec describes only the omission.
4. **Negative `select()` interval** (`:73`). When the clock is past `expire_at` by more than a second boundary and its usec is smaller, `time_left` returns 1 with `tv_sec = -1`. `select()` then fails with `EINVAL`, and `fatalSys` kills the process instead of timing out. This happens when a frame is handled across the deadline.

5. **Stale `seenMaxPayload`** (`:256`, `:307`, `:811`). Every PADO parsed in the round sets `seenMaxPayload` when it carries a Max-Payload tag, including a PADO that is then dropped (wrong AC-Name) or not selected. That tag also lowers the MRUs to its own value. The clamp to 1492 after the PADR loop is then skipped, so a session with an AC that never advertised Max-Payload keeps an MRU of 1500. TLC's trace: AC `a1` offers Max-Payload 1500 but fails the AC-Name filter; `a2` is selected without a tag, and its PADS has none; the MRU stays 1500. The spec's glossary says values above 1492 are allowed only when both ends advertise the tag (RFC 4638).

## 5. Proofs (TLAPS)

`PPPoEDiscoveryProofs.tla` proves `THEOREM TypeCorrect == Spec => []TypeOK` for every value of the constants. The assumptions are `MACAssumption`, `TagAssumption` and `ConfigAssumption` in `PPPoEDiscovery.tla`: the constant sets are typed, the attempt bound and the timeout are positive, and `NoTag` is not a tag value.

**Why `TypeOK` needs strengthening.** `TypeOK` alone is not inductive: `PADIGiveUp` and `PADRGiveUp` add one to an attempt counter, which stays in `0..MAX+1` only if the counter was at most `MAX` inside its loop. The inductive invariant is `TypeInv == TypeOK /\ AttemptsBounded`, where `AttemptsBounded` says exactly that.

**Proof structure.**
- `Init => TypeInv`.
- `TypeInv /\ [Next]_vars => TypeOK'` and `=> AttemptsBounded'`, each with one step per action.
- The temporal step, closed with `PTL`.

**Lemmas.**
- `SentFramesTyped`: the PADI, PADR and PADT the code builds are in `SentFrames`.
- `FrameFieldsTyped`: the fields of a received frame have the types of `conn`'s fields.
- `ConstFacts`: the configuration facts, one conjunct at a time.

**`PADRToSelectedAC`** proves `ASSUME Persist PROVE Spec => []NoPADRWithoutOffer`: in persistent mode every PADR goes to the source of the PADO selected after the last PADI. `NoPADRWithoutOffer` is not inductive by itself, because it says nothing about the PADI loop, where `offer` and `peerEth` are set. The inductive invariant `PADRInv` adds four facts:
- while the PADI loop waits, the last frame sent is this pass's PADI;
- `WaitPADO` runs in state `SentPADI`;
- a pass that ends outside `SentPADI` has selected a PADO and copied its source into `peerEth`;
- in the PADR loop, `peerEth` is still the selected PADO's source.

`SendPADR` addresses `peerEth`, so the property follows. The give-up steps need `~Persist` and drop out of the proof. This explains why the property fails without persist (finding 1).

**`DiscoveryRefinesAbstract`** (`PPPoEDiscoveryRefinementProofs.tla`) proves `ASSUME Persist PROVE Spec => AbsSpec`. The steps are:
- `Init => Abs!Init`;
- under the invariant `RefInv == PADRInv /\ CtrlInv`, every step is an abstract step or a stutter of the mapped state (`NextRefines`, one case per action).

`CtrlInv` says where `discovery()` can be, given `discoveryState`:
- skipping runs nothing between entry and return;
- the Session state is entered only on return;
- the PADR loop is entered only with a PADO selected;
- a PADS wait directly follows a PADR.

Without these facts, the mapping could not read the abstract phase off `discoveryState`. `PADRInv` supplies `target = peer` for `Establish`. The steps map as follows:
- `SendPADI` ↦ `Solicit`;
- the selecting `PADOCounted` ↦ `Select`;
- `SendPADR` ↦ `Request`;
- `PADSAccepted` ↦ `Establish`;
- `SelectError` and the probe exit ↦ `End`;
- `DiscoverySkipped` ↦ `Skip`.

**`MruBounded`** (`PPPoEPluginProofs.tla`) proves `PSpec => []MruWithinAdvertised` in every mode. The property's bound is inductive once the Session guard is dropped (`MruInv`), because:
- a ghost tag is recorded only on the step that parses it, and that step lowers both MRUs to it;
- no step raises an MRU;
- the offered tag is computed from the current MRUs.

The lemmas (`ParseKeeps`, `LowerKeepsBounds`, `LowerKeepsSent`, `SentTagBound`, `ParseKeepsInv`, `SendKeepsInv`, `AcceptKeepsInv`) carry these facts through the steps.

The PLUGIN ranges are stated as `x \in Nat /\ x < 65536`, not as `x \in 0..65535`.

**`SessionWithSelectedAC`** (`PPPoEDiscoverySessionProofs.tla`) proves `ASSUME Persist PROVE Spec => []SessionWithChosenPeer`. The session is entered with the selected AC, and that AC sent the accepted PADS. The inductive invariant is `SessInv == RefInv /\ SelInv /\ SessionWithChosenPeer`. `SelInv` says that from the moment a PADO is selected until the pass restarts, the kept `offer` is a frame `packetIsForMe` accepted and that passed the PADO checks. `PADSAccepted` compares the PADS source with `peerEth`, and `PADRInv` gives `peerEth = offer.src`, so the accepted PADS comes from the selected AC. The lemmas are:
- `NextSelInv`: every step keeps `SelInv`;
- `NextSessionPeer`: every step keeps the property, given `SessInv`.

Without persist the property can fail, and the proof shows where. `PADIGiveUp` enters the PADR loop with `peerEth` still the zero MAC and no offer. A PADS whose Ethernet source is `00:00:00:00:00:00` would then be accepted. TLC shows it with the zero-MAC sender (finding 1). The assumption is the one new-API pppd makes: the PLUGIN build sets `persist = 1` (`discovery.c:47`).

**`ProbeVerdict`** (same module) proves `Spec => []ProbeOutcome` in every mode. The `-A` probe's verdict matches the PADO count. The inductive invariant `ProbeInv` adds three facts:
- `offered` holds exactly when `numPADOs > 0`;
- a verdict exists only once `discovery()` is done;
- in probe mode the PADR loop is never entered.

The proof uses `TypeInv` for the counter's type.

**`ReqPeerSession`** (`PPPoEPluginProofs.tla`) proves `ASSUME Persist PROVE PSpec => []ReqPeerHonoured`: with a requested peer MAC, the PLUGIN build selects, requests and opens a session only with that peer. The key lemma is `PluginStepIsCoreStep == [PNext]_allVars => [Next]_vars`. The plugin adds only ghost and MRU variables and narrows the PADO guard, so every discovery invariant above carries over to `PSpec`. The inductive invariant `ReqInv` says that the kept offer's source is the requested peer, both in the PADR loop and in the Session state.

**`PluginRefinesAbstract`** (same module) proves `ASSUME Persist PROVE PSpec => AbsSpec`: the PLUGIN build, the one pppd loads, implements `DiscoveryAbstract` too. `PluginStepIsCoreStep` carries over the core refinement's invariant `RefInv` and its step lemma `NextRefines`. `PInit` contains the core `Init`. Run `refine` checks `AbsSpec` for the core build only; this theorem covers the PLUGIN build for every configuration.

**`RecvTypeCorrect`** and **`DeadlineRespected`** (`TimedReceiverProofs.tla`) prove two things about the receive loop, for every length of a second, timeout and clock bound:
- `Spec => []TypeOK`;
- `ASSUME SelectUpdatesTimeout PROVE Spec => [](NoEarlyTimeout /\ NoOverrun)`.

The inductive invariant `RecvInv` adds one fact: while `select()` runs, `Ticks(tv)` equals the time left to `expire_at`. The argument runs through three steps:
- `time_left` stores exactly that time left, with or without the usec borrow, or returns 0 once the deadline is reached (`TimeLeftFacts`).
- An interrupted Linux `select()` takes the slept ticks off `tv`, re-split by `TimeVal` without loss (`TimeValFacts`: `Ticks(TimeVal(t)) = t`).
- A `select()` that sleeps its whole interval therefore wakes exactly at the deadline.

`SelectNeverOverruns` states `Spec => []NoOverrun` on its own, from the same `RecvInv`.

The assumption `SelectUpdatesTimeout` is Linux's documented behaviour. A `select()` that leaves `tv` alone breaks the equality, because after `EINTR` the whole interval is slept again. Checking `MC_receiver.cfg` with `SelectUpdatesTimeout = FALSE` finds `NoOverrun` violated. No kept run does this, because POSIX leaves the behaviour open. The proofs also use `ReceiverAssumption`'s `MaxTime >= USEC_PER_SEC`: `Init` starts the clock anywhere in the first second, and the clock bound must contain it.

**Left to TLC.**
- Liveness (`Termination`) and everything else about fairness or `ENABLED`: the provers do not handle them.
- Runs whose property is violated (the findings), and the unguarded forms of the properties: they are counterexamples, not theorems.
- `PADREchoesOfferCookie`, `SentinelAnyService`, `MruCapUnlessPeerAdvertised`, and `SelectGetsValidInterval` are each violated by the code.
- Every property above without persist, or with a non-Linux `select()`: the proved theorems assume `Persist` or `SelectUpdatesTimeout` where the property needs it.

## 6. Not modelled

- **The frame codec.** Its byte layout, `CHECK_ROOM` and `parsePacket` are not under `src/`. The models work at the level of which tags a frame carries.
- **Syslog, printing and debug dumps.**
- **The RFC 2516 session-id log** (`:720-723`). It changes no state. The reserved id is accepted and the session goes ahead, as spec §3, §7 and scenario S5 say.
- **Overflow of `numPADOs` and of `timeout`.** The first needs 2³¹ PADOs. The second cannot happen, because `timeout` is reset at most `MAX_PADI_ATTEMPTS` doublings after it was last set.

## 7. Plan for further work

1. A spec-modelled frame-codec module for the encode/decode round trip and length accounting, checked by TLC only.
2. Liveness in persistent mode under network fairness: a session is eventually reached if some AC keeps answering.
3. A refinement for the receive loop against an abstract deadline timer, and a proof of it.
