# Verification of qsaTalk2

qsaTalk2 is a C library for a video intercom (an indoor screen that places calls to door
stations). It lives in `src/jni`: `init.c`, `talk.c`, `udp.c`, `timer.c`, `cb_function.c`,
`arp.c`, and the headers in `src/jni/include`; an example program is in `src/jni/TestDemo`.
The repository has no tests, and its README is a title. What the program is meant to do is
known from its code, its comments and its constants. Comments are in Chinese, some files are
in GBK. The file `udp.c` cited below is `src/jni/udp.c`, and so on.

This directory holds TLA+ modules that model the library, TLC configurations
that check them on small instances, and TLAPS proofs of the main safety
properties for all instances.

    tlc -config session_safety.cfg MCTalkSession     # one run
    tlapm TalkSessionProofs.tla                      # one module of proofs

## 1. Inventory

### Threads

| thread | code | does |
|---|---|---|
| application | `init_param_task`, `uninit_task`, `send_info`, `start_call`, `stop_talk`, `find_ip`, `qsa_send_video`, `qsa_send_audio` | calls the library, from as many threads as it likes |
| `UdpVideoRcvThread` | `udp.c:456-586` | receives on the video port, dispatches to the `Recv_` handlers of the session |
| `UdpDataRcvThread` | `udp.c:403-454` | receives on the data port; it only looks for an answer to an open-lock request, which this program never sends, and for the text "exit" |
| `timer_thread_task` | `timer.c:55-76` | every 490 ms, while `OnlineFlag` is 1, `OnlineCheckFunc` and `TalkCtrlFunc` |
| `multi_send_thread_func` | `udp.c:125-214` | would retransmit the pool. **Never started**: `udp.c:80` has the call commented out, and `_CROSS_SEND_FLAG` is 0 |

All of them are detached. Nobody joins them.

### Components, their state, and what makes them correct

**Call session** (`talk.c`, `udp.c`, `timer.c`, `init.c:106-172`).
State: `Local.Status`, `OnlineFlag`, `CallConfirmFlag`, `Timer1Num`, `TimeOut`,
`remote_info`, and the request pool `Multi_Udp_Buff` with its mutex `udp_lock`.
The application fills slots of the pool, the receive thread empties them when an
answer comes, and both threads and the timer move `Status`. The mutex covers the
pool and nothing else. `Status` takes only three of its documented values: 0
(`CB_ST_NULL`), 1 (`CB_ST_CALLING`) and 5 (`CB_ST_TALKING`). The function that
would answer a call (`Recv_Talk_Call_Task`) is empty, so this device only ever
places calls, and the branches for a called device are dead.
*Correct when*: no pending request is lost or overwritten; one answer settles
one request; a silent peer is noticed; a call ends in time, and only when it is
due; its end is told to the peer the device is connected with; the mutex is
always given back.

**Retransmission engine** (`udp.c:97-214`). State: `SendNum`, `DelayTime` and
`SendDelayTime` of each slot. Compiled but never started, see above.
*Correct when*: each request is sent at most `MAXSENDNUM` times, then reported and
freed.

**Media path** (`talk.c:231-450`, `udp.c:919-959`). State: locals of the sending
function, and the status it reads. Cuts frames into datagrams, sends audio, and
hands received audio to a callback.
*Correct when*: a receiver can put every frame together, whatever the call does
meanwhile, and no audio reaches the application when there is no talk.

**Life cycle** (`init.c:27-104`, `timer.c:25-76`, `udp.c:61-97,216-474`,
`arp.c:21-54`). State: `timer_thread_flag`, `UdpRecvFlag`, the two sockets, the
mutex, and the slots taken by `SendFreeArp`.
*Correct when*: after `uninit_task` the threads end and the sockets are closed,
and a later `init_param_task` finds a library as good as new.

**Time scale of the timeouts** (`libqsa_common.h:26-36`, `timer.c`). `CALLTIMEOUT`
(500) and `TALKTIMEOUT` (3600) are computed for 50 ms ticks and counted in passes of
490 ms, and tested only when the count is even.
*Correct when*: the clock of a call is stopped soon after its limit.

**Remote commands** (`Recv_Talk_Open_Lock_Task`, `RecvForceIFrame_Func`,
`Recv_Open_Lock_Func`, `ForceIFrame_Func`). The first two check the status,
acknowledge and call back. `Recv_Open_Lock_Func` looks for a LIFT request, and none is
ever created; `ForceIFrame_Func` has no caller.

**Callbacks** (`cb_function.c`, `libqsa_callback.h:9-56`). A table of four function
pointers, and the accessors `get_device_status` and `set_device_status`. A callback runs on
the thread that makes it, the receive thread or the timer (audio and a refused
`qsa_send_*` aside). Three are made with `udp_lock` held: `CB_CALL_BUSY`,
`CB_CALL_OK`, and the `CB_TALK_STOP` of an acknowledged hang-up.
*Correct when*: an application that calls the library from a callback gets an answer,
and no thread waits for the mutex it holds.

**Free ARP** (`arp.c`). Broadcasts a raw packet at every init, and fills a slot
of the pool that nothing ever frees.

**Demo program** (`TestDemo/`). A keyboard menu (`main.c`), callbacks that set
`g_Value` (`cb_function.c`), a thread that polls it (`recvice_udp.c`), and a video source
(`nalu.c`) that cuts a stored H.264 stream into frames for `qsa_send_video`. State of
the video source: the two files, the unit found last, `ts_length` (static), `w_length` and
`sendflag`. The program also shares a variable with the library: both define
`short UdpRecvFlag` without an initialiser (`recvice_udp.c:27`, `udp.c:22`), and linked
together (Makefile, target `gcc`) they have one. The polling thread and the callback
`default_cb_opt1` set it to 1.
*Correct when*: the units found are those of the stream, each frame sent ends with the
unit that completed it, and the receive threads still end. `new_nal.c` and `arp_send.c.b` are not built.

### What is hard here

- Five pieces of shared state are read and written by three kinds of threads
  without a lock: `Status` is checked, something slow happens (a datagram is
  sent, a mutex is waited for), and `Status` is set.
- The counters of the supervision are incremented by the timer while the receive
  thread resets them.
- `send_info` uses the pool without its mutex.
- Datagrams are lost, late, repeated and reordered; there is no sequence number,
  and an answer is matched with a request by its kind, not by its peer.
- A request that is not answered stays in its slot for ever.
- `uninit_task` waits for 40 ms where a thread sleeps for 490 ms.
- The flag that `uninit_task` clears to stop the receive threads is set by these threads
  themselves, and in the demo by a callback and by a thread that the library does not know.
- Some callbacks run with `udp_lock` held, some without, and one and the same event
  comes in both ways.
- The video source reads one stream through two files, and what it has not sent yet lives
  in variables that survive a frame, or a run.

`PROJECT.json` lists every hazard at its line, with the properties that cover it.

## 2. The modules

A component has one module (the state and the actions, the specification, the
properties), an `MC` module with the sets that the configurations use, and one or two
modules of proofs. Two abstract specifications say what a part promises; the detailed
module is shown to implement them. `TalkSession` itself is the abstract specification of a
third refinement, that of `Callbacks`.

| component | module | runs | proofs |
|---|---|---|---|
| call session, remote commands, time scale | `TalkSession`, `MCTalkSession` | `session_safety`, `session_one_call`, `talk_times_out`, `timeout_due`, `request_settled`, `hang_up_party` | `TalkSessionProofs`, `SingleCallProofs` |
| its request pool, abstractly | `RequestBook` | `session_callbacks` (`PoolIsBook`) | `TalkSessionProofs` |
| callbacks: the session and an application that calls it back | `Callbacks`, `MCCallbacks` | `session_callbacks` | `CallbacksProofs`, `CallbackThreadsProofs` |
| media path | `MediaSend`, `MCMediaSend` | `media` | `MediaSendProofs` |
| life cycle | `Lifecycle`, `MCLifecycle` | `life`, `life_lock` | `LifecycleProofs` |
| video source of the demo | `NalParser`, `MCNalParser` | `nal`, `nal_frames` | `NalParserProofs` |
| a reader of an H.264 stream, abstractly | `NalStream` | `nal` (`UnitsOfStream`) | `NalParserProofs` |

### TalkSession

*State.* The five fields of `Local` that the session uses, the two fields of
`remote_info` that decide anything (`DenNum`, `IP[0]`), the pool (a slot is `Free`
while `isValid` is 0, otherwise it holds the kind of request and its
addressee), and the mutex with its holder. `pc`, `slot`, `arg`, `cnt` and `site` are the
local variables of the threads: where each is, the slot it has picked and not
filled, the peer it works on, the counter value the timer has loaded, and which
timer function called `stop_talk`. The rest is history: how many calls were
placed, answered, refused; the passes since the last confirmation; the peer that
answered or started the talk last.

*Actions.* A handler is one action unless another thread can come between two of
its accesses to shared state; there it is cut, and what follows is the next
value of `pc`. The cuts:

| code | actions | why the cut |
|---|---|---|
| `start_call` | `StartCall`, `CallLock`, `CallFill` | status is read before the lock; the slot is filled and transmitted while locked |
| `stop_talk` | `StopTalk` or `TimerStop`, `StopLock`, `StopFill` | the same, called by the application and by the timer |
| `find_ip` | `FindIp`, `FindLock`, `FindFill` | the same, clears `remote_info.IP[0]` |
| `send_info` | `SendInfo`, `InfoFill` | no lock: pick and fill are apart |
| `Recv_NS_Reply_Func` | `RecvNSReply`, `NSReplyTail` | the scan is locked, the tail sets the status unlocked |
| `Recv_Talk_Line_Use_Task` | `RecvLineUse` | all of it is locked |
| `Recv_Talk_Call_Answer_Task` | `RecvCallAnswer`, `AnswerTail` | locked to its end, but status and supervision are read without the lock |
| `Recv_Talk_Call_Start_Task` | `RecvCallStart`, `StartTail` | no lock; a datagram is sent between the check and the set |
| `Recv_Talk_Call_Confirm_Task` | `RecvCallConfirm`, `ConfirmTail` | no lock |
| `Recv_Talk_Open_Lock_Task`, `RecvForceIFrame_Func` | `RecvOpenLock`, `RecvForceIFrame` | no lock; the check, then the callback |
| `Recv_Talk_Call_End_Task`, ASK | `RecvCallEndAsk`, `EndSupervision`, `EndClear` | no lock; a datagram is sent between the flags and the status |
| the same, REPLY | `RecvCallEndReply`, `EndSupervision`, `EndScan` | no lock until the pool is scanned |
| the same, neither of the two | `RecvCallEndOther`, `EndSupervision` | the supervision is switched off, the pool is locked and not scanned |
| the callbacks of the receive thread | `RxCallback` | the handler is still in progress; the mutex is released after it, where it was held |
| `timer_thread_task` | `TimerPass` | a pass with `OnlineFlag` 0 changes nothing |
| `OnlineCheckFunc` | `OnlineCheckFunc`, `IncTimer1`, `TimerStop`, `Drop`, `TimerCallback`, `Unflag` | `Timer1Num++` is a load and a store; `stop_talk` waits for the mutex |
| `TalkCtrlFunc` | `TalkCtrlFunc`, `IncTimeOut`, `TimerStop`, `Drop`, `TimerCallback`, `Unflag` | the same for `TimeOut++` |

A step of an unlocked increment stores the value computed from the load or
the value computed from what is there now: a reset that falls in between is lost
or not.

*Environment.* Any peer sends any kind of datagram at any time, which is a
network that loses, delays, repeats and reorders. A request is transmitted once.
Slot 0 holds the request of `SendFreeArp` from the beginning, so a pool of
`UDPSENDMAX` slots has `UDPSENDMAX - 1` usable ones.

Three groups of unlocked writes are one step although a thread could run between them: the
five of `AnswerTail` (`udp.c:736-741`), those of `StartTail` (`udp.c:772-781`), and the
fields of the slot in `InfoFill` (`init.c:126-169`), where a mixture of two fills is reduced
to the fill that was last. No property below depends on the order within them; `NoClobber`
exempts `send_info`.

*Left out.* Addresses in datagrams other than the peer they come from, package
formats, logging, and what is dead: the branches of a called device. In `TalkSession` a
callback just returns.

### RequestBook

What the pool promises, without the mutex, the picking of a slot, the threads and the
loops: a request is entered in an empty line, stays as it is, and is struck out by the kind
of answer that belongs to it. `PoolIsBook` is `INSTANCE RequestBook WITH book <-
Multi_Udp_Buff`; the counts of calls placed, answered and refused are the same variables in both.

### Callbacks

`TalkSession` and an application that reacts to callbacks (`Reactions`: pairs of a callback
and an API function). A thread of the library that makes such a callback enters the
application (`EnterCallback`), may call the API function once (`Ask`), runs it step by step
with the actions of `TalkSession` (`Proceed`), and goes back to the handler
(`LeaveCallback`). While it waits for `udp_lock` in there, it handles no datagram and makes
no pass. A `stop_talk` in the timer's callback is left out (assumption
`ReactionAssumption`): the timer has just set `CB_ST_NULL`, at which `stop_talk` returns,
unless the receive thread brings a call up in between.

*CallbacksAreThreads* maps this module to `TalkSession` with two more threads, "rx_cb" and
"timer_cb": while a thread of the library is in a callback, what it has (place, slot,
argument, mutex) is handed to its `Executor`, and the thread itself is mapped to the place
of the callback. `EnterCallback` is then a stutter, `LeaveCallback` is `RxCallback` or
`TimerCallback`, and the rest are actions of `TalkSession` by the executor. So a callback
that calls the library does nothing to the session that an application thread could not do.
This fails for the callbacks made under `udp_lock`: there the executor would start with a
mutex it never took.

### MediaSend

*State.* The status (moved by `SetStatus`: the session, at any time), and for
every sender the header fields of the frame it is cutting, the package it is at,
and the set of datagrams it has sent. Payload is the interval it was copied from.
Header fields are unsigned shorts (modulo `USHRT`).

*Actions.* `SendVideo` is the head of `qsa_send_video`: one read of the status
decides the package length. `SendPackage`, `Delay`, `VideoReturns` are its
loop. `Delay` is `usleep` for an I frame, and for the others
`for (i = 20000; i > 0; i++)` (`talk.c:341`), which is a signed overflow:
`Build` holds the outcomes a compiler may produce, "wraps" and "forever".
`SendAudio` is `qsa_send_audio`, with the uninitialised bytes of its header as a
choice. `RecvUpDown` and `AudioCallback` are the two halves of
`Recv_Talk_Call_UpDown_Task`. Senders share nothing but the status.

A comment at `talk.c:312` says that packages are sent from the largest number to
the smallest; the loop counts up. Nothing depends on the order, so
`FrameWhole` is about the set of the datagrams.

### Lifecycle

*State.* Where the application is inside `init_param_task` or `uninit_task`, the
number of the life, the two flags, for each port the socket the global variable
names and the sockets with an open descriptor, where each thread of each life
is, whether the mutex is usable, and how many slots `SendFreeArp` has used.

*Actions.* One for each step of the two functions that other threads can see, and
one for each step of a thread between two looks at shared state. The 40 ms
waits of `uninit_task` have no duration: a thread may take longer.
`InitUdpSocket` has its three outcomes: a socket and a thread; no socket; a
socket whose options cannot be set and which is not closed. In the two failing
cases `init_udp_task` skips the rest, `init_param_task` ignores it, and
`uninit_task` closes descriptors that were already closed. Closing a descriptor
does not wake a thread blocked in `recvfrom` on it.

*Two kinds of programs.* `demo` is "absent" in a program with variables of its own.
Otherwise it is the place of the demo's polling thread, which shares `UdpRecvFlag` with the
library (`SharesFlag`). That program has one life: it initialises the library, starts the
thread (`CreateUdpVideoRcvThreadDemo`), and ends with `Exit`, the `exit(0)` right after
`uninit_task`. `Poll` is the thread. `FlagAfterOpt` is what `default_cb_opt1` may do to the
flag: in `TimerSleeps`, in the handlers of the video port (`Handle`), and in
`SendVideoFails`, a `qsa_send_video` without a talk. So the flag can be 1 again after
`uninit_task` has cleared it, and the receive threads poll a closed socket. What ends them
is `Exit`; without its fairness TLC finds `ReceiversEnd` violated. A program that shared the
flag and did not exit would keep them polling.

*Left out.* Failures of `pthread_create` and `bind` (the process exits or the
result is ignored), the raw ARP socket that every init opens and nobody closes
(`CloseArpSocket` has no caller), and that the system may give the number of a
closed descriptor to a new one.

### NalParser and NalStream

*State.* The offsets of the two files and their end-of-file marks; in
`GetAnnexbNALU`, where the unit began and how many bytes `Buf` holds; the three fields of
the `NALU_t` that matter; `ts_length`, `w_length`, `sendflag`. A file is a sequence of
bytes, and `Buf[k]` is the byte at offset `start + k`. History: the unit found and the frame
sent last.

*Actions.* `GetAnnexbNALU` is its head (the start code, or the two returns without one,
which `user_main` ignores), `ReadByte` one turn of its loop, `ReadEof` the turn that reads
past the end, `LastUnit` the return there. `TakeUnit` is the rest of the loop of
`user_main`, and `UserMain` and `UserMainEnds` are its beginning and end. `fread`, `fgetc`,
`feof` and `fseek` are modelled by what they do to offset and mark.

`NalStream` knows nothing of buffers and seeks: a unit is delivered from its start code to the
next one or to the end. `UnitsOfStream` maps its position to where the parser has completed a unit.

*Left out.* `forbidden_bit` and `nal_reference_idc` (unused), files that do not open (the
process exits), the sizes of the two buffers, the 60 ms pause, and `qsa_send_video` itself.

## 3. The runs

Passing runs:

| run | instance | shows |
|---|---|---|
| `session_safety` | 1 application thread, 1 peer, 2 calls, 2 usable slots, all four API functions, all datagrams | `TypeOK`, `SupervisedSilence`, `NoClobber` |
| `session_callbacks` | 1 application thread and 3 reacting callbacks, 1 peer, 2 calls, the three functions the demo calls, 1 usable slot, time limits 0, with fairness | `CbTypeOK`, `CallAccounting`, `PoolIsBook`, `NoSelfDeadlock`, `CallbacksReturn`, `CallbacksAreThreads` |
| `session_one_call` | 1 call, 2 peers, all datagrams, 1 usable slot, 2 passes per second, with fairness | `TimeBounded`, `HangUpReachesParty`, `EndsWithSupervision`, `CallAccounting`, `LockReleased`, `SupervisedEnds` |
| `media` | 1 sender, frames of 0 to 9 bytes, packages of 2 and 4, both outcomes of the delay loop, with fairness | `TypeOK`, `FrameWhole`, `LateAudio`, `IFrameCompletes` |
| `life` | 2 lives, or the demo with one, sockets that fail in both ways, with fairness | `TypeOK`, `LateDatagram`, `SocketsClosed`, `TimersEnd`, `ReceiversEnd` |
| `nal` | all files of up to 6 bytes from {0, 1, 101}, streams of up to 3 units, 2 runs of `user_main`, with fairness | `TypeOK`, `NeverAhead`, `FramesWhole`, `UnitsOfStream`, `UserMainReturns` |

Runs that end in a counterexample, one for each disagreement between the code
and what its comments say. TLC's trace in words:

| run | property | the counterexample |
|---|---|---|
| `talk_times_out` | `TalkTimesOut`: every talk ends ("talk: 180 second timeout") | The call rings out; the timer is about to end it. The receive thread gets CALLSTART, sees `CB_ST_CALLING`, sends its answer; the timer sets `CB_ST_NULL` and `OnlineFlag` 0; the receive thread sets `CB_ST_TALKING`. No pass looks at this talk again. |
| `timeout_due` | `TimeoutsAreDue`: a timeout is reported when the time is up | `TalkCtrlFunc` decides that the call has rung too long and calls `stop_talk`; CALLSTART makes it a talk with `TimeOut` 0; the timer drops the new talk and reports a timeout. |
| `request_settled` | `RequestSettled`: every call and hang-up is answered or given up ("timeout after 6 transmissions"), with a peer that answers all of them | Both sides hang up. The CALLEND of this device is pending when the peer's own CALLEND ends the call; the peer's reply then finds `CB_ST_NULL` and is ignored (`udp.c:841`). Nothing repeats or frees the request: the slot is lost. |
| `hang_up_party` | `HangUpReachesParty` with `find_ip` in use | A CALL is pending (status still `CB_ST_NULL`); `find_ip` clears `remote_info.IP[0]`; the call is answered; `stop_talk` sends its CALLEND to 0.0.0.0. |
| `life_lock` | `FreeArpLocked`: the pool is filled with the mutex locked | `uninit_task` destroys the mutex, and the second `init_param_task` uses it: only `Init_Udp_Send_Task`, which is never called, initialises it. |
| `nal_frames` | `FramesEndAtUnits`: what is sent ends with the unit just parsed | A slice is sent; the parameter set after it completes no frame, but `w_length` is still that of the slice: the slice is sent again as a frame of the set's type, and the set's bytes are forgotten. Later frames are then cut at the wrong place, as a stream repeats its parameter sets (`TestDemo/1.h264` does). |

### Properties with a restricted scope

Some properties hold only in part of the program's behaviour, and say so.

- `NoClobber` exempts the requests of `send_info`, which takes no lock.
- `CallAccounting` and `PoolIsBook` hold while `send_info` is not used; with it, a CALL can
  be overwritten. The theorems have this as their hypothesis.
- `TimeBounded` holds until a second call is answered: then the status is `CB_ST_CALLING` a
  moment before `TimeOut` is reset. `TimeBoundedHolds` has `confirmed <= 1` in it.
- `NoSelfDeadlock` and `CallbacksReturn` are about applications that call the library in
  unlocked callbacks only (`Safe` in `CallbacksProofs`). In a locked one the call blocks for
  ever: TLC shows it at once with `<<"CB_CALL_OK", "stop_talk">>` among the reactions.
- `ReceiversEnd` assumes, in a program with variables of its own, that the receive threads had
  started when `uninit_task` returned: one that starts later sets `UdpRecvFlag` again. The
  demo needs no such assumption, because it exits.
- `TimersEnd` and `ReceiversEnd` are about a library that stays down.
- `FramesWhole` is about streams whose parameter sets all come before the first slice, and
  runs that begin with `ts_length` 0 (`orderly`).
- `HangUpReachesParty` and `EndsWithSupervision` hold for a single call without name
  queries. With a second call, a LINEUSE of the one sets the status to `CB_ST_NULL` while
  the other is talking; with a name query, see `hang_up_party`. The theorems have `OneCall`
  as hypothesis: once a call is placed, no thread is inside `start_call`, or enters it with
  success, again.

`SupervisedEnds` promises an end of the *supervised* call: either the call is over
or its supervision is. That it is not stronger is the lesson of
`talk_times_out`, and of a CALLEND that is not an ASK when no CALLEND is pending, which
switches the supervision off and leaves the status alone (`udp.c:858`).

### The timeouts in seconds

`TimeBounded` bounds the clock of a call by `CALLTIMEOUT + TIMERPERSEC`, that of a talk by
`TALKTIMEOUT + TIMERPERSEC`, and the code has 500, 3600 and 2. The test comes before the
increment and looks at even counts, so a call that rings is ended when the count is 502 and
a talk when it is 3602. A pass takes 490 ms, so this is about 246 s and 1765 s.
`libqsa_callback.h:52-53` promise 30 s and 180 s.

### What the models show besides

Two behaviours are in the models without a property of their own: an `init_param_task`
within 490 ms of `uninit_task` leaves two timer threads running (`Lifecycle`), and audio
sent while the call rings carries whatever sub-command the stack held (`SubCommands` in
`MediaSend`).

### Bounds, and why they are enough

- `MaxCalls` (2): two calls are the least that lets a late answer to one be taken for the
  other. `CallAccounting` is proved without it.
- `Peers` (1 or 2): answers are matched by kind, not by peer, so one peer is enough for the
  pool and the supervision; where the question is who is told of a hang-up, another one
  interferes.
- `UDPSENDMAX` (3, or 2): of the 50 slots, one is taken by ARP. With two the pool can be
  full, empty and have a gap before a pending request; with one it is full as soon as a
  request is pending. Two CALLs pending at once are left to the theorems.
- `Apps` (1): the timer also allocates, and in `session_callbacks` the receive thread, so
  that two or three threads compete for a slot. The theorems hold for any number.
- `Reactions` (`Unlocked`): the device found is called, the talk that starts is hung up, the
  call that timed out is placed again; one for each unlocked callback that ends or begins
  something.
- `Kinds` (`PoolKinds` in `session_callbacks`): the datagrams that settle a request or lead to
  an unlocked callback. LINEUSE settles a CALL as CALLANSWER does and leads to a locked callback; its part of
  `CallAccounting` is checked in `session_one_call`, and proved for any number of calls.
- `ONLINEMAX`, `CALLTIMEOUT`, `TALKTIMEOUT` (0 to 2): where they are not 0, a window of a few passes has a first,
  a middle and a last one. The order is the one of the code: the call times out before the
  talk. `TIMERPERSEC` is 1 where only the order of events matters, and 2, as in the code, in
  `session_one_call`, where the test of every other pass must not miss the timeout. The
  counters are not bounded: a supervised call ends, so `TimeOut` stays finite.
- `MaxLength`, `VIDEOPACKDATALEN`, `USHRT` (9, 2, 8): frames of none, a part, exactly one,
  and several packages of both lengths, the last one full and not; at most five packages,
  which an unsigned short of three bits holds. The assumption `MaxLength <= (USHRT - 1) *
  VIDEOPACKDATALEN` is the limit above which the package count would wrap; with the real
  numbers (65535 packages of 1350 bytes or more) no frame of a camera reaches it.
- Files of six bytes hold a start code of each length, two that overlap, and one that is cut
  off by the end; streams of three units hold a slice before, between and after parameter
  sets. Two runs are the least that lets `ts_length` survive. The theorems hold for every
  file.
- `MaxInits` (2): the threads of one life meet those of the next. The safety theorems hold
  for any number.

### Fairness, and why the code justifies it

Weak fairness, with one exception, and only for threads that can run:

- `WF(AppReturns(a))`, `WF(RxReturns)`, `WF(Timer)`: a thread inside a function of the
  library is scheduled until it returns; the loop of the timer has no exit while the library
  is up. Taking the mutex is an action that is enabled when it is free. Weak fairness
  suffices for `LockReleased` because the holder never waits. `SupervisedEnds` needs the
  timer to get the mutex, which weak fairness grants only if others do not take it again and
  again. They do not: a hold that lasts longer than a step fills or releases a slot, and
  while a call is up no slot can be filled and released without end (a full pool gives the
  mutex back in the same step, a released CALLEND ends the call).
- `WF(Video(s))`: a thread that is sending a frame goes on.
- `WF(ApiReturns)`, `WF(Timer(g))`, `WF(RcvRuns(r))`, `WF(Poll)`: the same for `Lifecycle`.
  A thread blocked in `recvfrom` is not among them. `ApiReturns` contains the demo's
  `CreateUdpVideoRcvThreadDemo` and `Exit`: `main` calls them unconditionally after
  `init_param_task` and `uninit_task` (`main.c:49, 191`).
- `CbFairness` is the same for the threads outside callbacks. Inside one,
  `SF(EnterCallback(t) \/ Proceed(t) \/ LeaveCallback(t))`: the application's code in a
  callback ends, and a thread that waits for `udp_lock` there gets it if it is free again
  and again, since other threads may take and release it without end. This is the one strong
  fairness; it asks of the mutex that it starves no waiter for ever.
- `WF(Runs)`: `user_main` goes on; nobody has to start it.
- `Answering`, in `request_settled` only, adds a peer that answers every call and every
  hang-up. The counterexample is the stronger for it.

Elsewhere no fairness makes the application call, a peer send, or a datagram arrive.

`CHECK_DEADLOCK FALSE` is set in `life*` (the library may stay down for good), in `nal*`
(`user_main` has been run as often as the bound says) and in `talk_times_out` and
`timeout_due` (the talk has no more events).

### Mutants

Every property of a passing run has a mutant in `PROJECT.json`: a definition of
the module, and the same definition with a plausible mistake (the mutants are
in the modules, marked as such). TLC finds each property violated by its mutant.

## 4. The proofs

All for every value of the constants that meets the named assumptions
(`ThreadAssumption`, `PeerAssumption`, `NumberAssumption`, ...), which say no more than that
numbers are natural, thread names are distinct and a package has a length.

**TalkSessionProofs.**
- `TypeCorrect`. `TypeOK` is not inductive: `Timer1Num` would grow in `IncTimer1`. The
  strengthening `WindowInv` says that the timer only increments a counter, and has only
  loaded one, that is not past its window.
- `NoClobberHolds`. The invariant `LockInv`: a thread between pick and fill holds the mutex,
  and its slot is vacant or has been taken by `send_info`. Each step then keeps every
  pending request or is exempt (`Keeps`). The lemmas are about `Claim`, `Store` and
  `Settle`, one for each, and the actions cite them.
- `SilenceBounded`. `SilenceInv` relates the passes since the last confirmation to the
  window counter: `silent <= Timer1Num + Grace`, where `Grace` is one more window if the
  present one has seen a confirmation. Around the racing increment it must hold for both
  values that the store may leave, and while the timer ends the call, with the bound itself.
- `PoolImplementsBook`, for `"send_info" \notin Ops`: each action that writes the pool is
  one action of `RequestBook` (`LockInv` gives that the slot filled was empty), and every
  other one leaves its variables alone.
- `AccountingHolds`, for `"send_info" \notin Ops`. `Balanced` says that a step changes the
  number of pending CALLs by what it adds to `placed - confirmed - busied`; it follows from
  `LockInv` (the slot filled was vacant) and the cardinality lemmas `StorePending` and
  `SettlePending`.

**SingleCallProofs.** What one call keeps. In each invariant a counter of history stands for
the place of the call: `confirmed = 0` is before the answer, `confirmed = 1` after.
- `NoAnswerWithoutCall`, without a hypothesis: `AtMost`, that answers, refusals and pending
  CALLs are no more than the calls placed. Unlike `CallAccounting` it survives `send_info`,
  which can destroy a CALL but not add one.
- `TimeBoundedHolds`, for `CALLTIMEOUT <= TALKTIMEOUT` (500 and 3600 in the code).
  `BeforeInv`: until the first answer the session is at rest. `TimeInv`: while the
  supervision is on, the clock has not passed `Limit(x)`, the first multiple of
  `TIMERPERSEC` after the limit `x` of the present status, and the value the timer has
  loaded, or is about to test, is below it. It must hold for the clock and for the loaded
  value, since the racing store may write either; and for a call that starts talking, where
  the larger limit takes over before the clock is reset.
- `EndsWithSupervisionHolds`, for `"find_ip" \notin Ops` and `OneCall`. With `AtMost` at most
  one call is placed, so when it has been answered no CALL is pending that a LINEUSE could
  settle; `NoQuery` excludes the name reply, which also resets the status.
- `HangUpReachesPartyHolds`, without `send_info` as well. `PartyInv`: a pending CALL is
  addressed to `remote_info.IP[0]`, and after the answer so is the party. Only `start_call`
  changes the address between the two, and `OneCall` says that it does not.
- `OneCallPromises`: `OneCall` is met by a program with one calling thread and
  `MaxCalls <= 1` (`OneCaller`), the instance of `session_one_call`, for any number of peers,
  slots and passes. There is no proof for two calls because none of the three promises
  survives the second.

**MediaSendProofs.**
- `FrameWholeHolds`. The arithmetic is in three lemmas: `Count` (every byte of a frame is in
  package `b \div PackLen + 1`, at most `TotalPackage`), `Header` (the header fields of
  package `k` as a receiver reads them, in spite of the modulus), `Whole` (all packages
  together make the frame). `FrameInv` says that a sender at package `j` has sent exactly
  the packages before it, all cut with the length it read at the beginning.
- `LateAudioHolds`. `LateInv`: while a datagram is being let in, none has been counted.
- `TypeCorrect`, from `FrameInv` and the types of the fields it does not mention (`Rest`).

**LifecycleProofs.**
- `LateDatagramHolds`, `SocketsClosedHolds`, from one invariant: an open socket is the one
  its global names or has no thread (`Owned`); the global names a closed one from
  `close` to the next `InitUdpSocket` (`Between`); a life has no receive
  threads before it creates them (`Fresh`); a thread that has handled its datagram
  while the library was down cannot block again (`Spent`), whoever sets the flag. They hold
  for both kinds of programs.
- `TypeCorrect`, with the bound of the slots that `SendFreeArp` takes.

**CallbacksProofs.** With `Safe`, no reaction to a locked callback:
- `CallbackTypes`. `PlaceInv` says where each thread can be: at one of its own places
  outside callbacks, at one of the API's inside.
- `CallbacksSafe`. `HoldInv`: whoever holds `udp_lock` is at a place that releases it, and
  none of these waits for it. The lemmas say what a step does to places and mutex (`Step`),
  for the API, the receive thread, the timer and the callbacks; `StepHolds` needs nothing
  else of them.

**CallbackThreadsProofs.** With `Safe` again:
- `CallbacksImplementThreads`, the refinement. `HandsInv` and `ReactInv` strengthen the
  invariant of `CallbacksProofs`: a thread has a slot in hand only between picking and
  filling it, a thread of the library an argument only where it works on it, so that it
  carries nothing into or out of a callback; and it is never in a locked one. `Handover` and
  `HandoverStep` say how the mapped variables follow the concrete ones; after them each
  action lifts by itself (`ReturnsLift`, `CallsLift`, `RxLifts`, `TimerLifts`,
  `EnterStutters`, `LeaveLifts`).
- `CallbackAccounting`, `CallbackBook`, `CallbackNoClobber`, `CallbackSilence`,
  `CallbackTime`: the theorems about `TalkSession`, instantiated with the larger set of
  threads and the mapped variables, speak about the variables that the mapping leaves alone.
  No invariant is proved twice.

**NalParserProofs.** For every set of files:
- `TypeCorrect`, and with it `ScanInv`: while the parser scans, it began at a start code and
  none of the bytes since completes another. Together they are `PInv`.
- `ParserImplementsStream`. A scan step is a stutter, a unit found is `Deliver`. The lemma
  `NoOverlap` is the heart: the start code found does not overlap the one the unit began
  with, because that one ends in a 1.
- `FramesAligned`. `Aligned`: in an orderly run `bits1 + ts_length` is where the parser is.
- `NeverAheadHolds`, for streams that are not orderly and runs that begin with a stale
  `ts_length`. In those the bytes counted have nothing to do with where the parser is, and
  `BehindInv` says why no frame is sent too early: in a file with a slice, a run ends with
  `ts_length` 0, because the frame sent is sent again for every later unit; in a file
  without one, no frame is ever sent. "A file has no slice" is about units that are not yet
  parsed, so `PlaceInv` ties the parser's place to the units of the stream, and `UnitSlices`
  carries what is known of the slices from one unit to the next.
- `NeverRetries`, from the same invariant: the frame that `user_main` keeps back when the
  second copy is exhausted (`sendflag` stays 1) does not occur, so that branch is dead.

*Model-checked only*: the liveness properties (`LockReleased`, `SupervisedEnds`,
`CallbacksReturn`, `IFrameCompletes`, `TimersEnd`, `ReceiversEnd`, `UserMainReturns`), which
TLAPS does not do under fairness. Every invariant, action property and refinement that a
passing run checks has a theorem, under the hypotheses given above.

## 5. What is not modelled

- The retransmission engine (`udp.c:97-214`): no code that runs starts it, so the program
  has no behaviour of it. What follows from its absence, requests that are neither repeated
  nor given up, is in `TalkSession`. A model of it would be one of a different program.
- Code nobody calls: `ForceIFrame_Func`, `CloseArpSocket`; the data port's look for an
  answer to an open-lock request that is never sent.
- The menu, the serial port and the idle timer thread of the demo: input and output. `g_Value`
  is an unlocked global that only decides what its polling thread prints; the flag that thread
  shares with the library is in `Lifecycle`.
- `new_nal.c` and `arp_send.c.b`, which are not built; `c_include`, the same headers with
  `printf` for the logging.
- The raw ARP packet, recording of frames to a file, frame numbers and time stamps, package
  formats.
- An application that replaces its callbacks while one is being made.
- Memory ordering beyond the cuts above: a thread sees another's writes at once and in
  order.

## 6. Plan

Done: the session with its pool, callbacks and remote commands, the media path, the life
cycle, the video source of the demo; three refinements; the proofs above. What would be worth
adding:

1. `HangUpReachesParty` and `EndsWithSupervision` for a call placed in a callback, along
   `CallbacksImplementThreads`: `OneCall` has to be restated for the executors.
2. The safety half of the liveness properties: that the holder of `udp_lock` is always a
   bounded number of its own steps from releasing it, that a supervised call always has a
   pass of the timer that brings its clock forward.
3. A peer as a second instance of a device, should the called side (`Recv_Talk_Call_Task`)
   be written one day.
