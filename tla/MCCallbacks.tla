----------------------------- MODULE MCCallbacks -----------------------------
(***************************************************************************)
(* Instances of LinuxTimeouts, WindowsControl and Hotplug for TLC: what    *)
(* the OS calls back, and when.  A program uses control transfers on Linux *)
(* or on Windows, or a hotplug watch; the rest stays as it is initially.   *)
(***************************************************************************)
EXTENDS LinuxTimeouts

CONSTANTS Unlocked, Callback, Poisoned, Devices, Platforms, MaxPlugs

ASSUME WatchAssumption ==
  Platforms \subseteq {"linux", "windows", "macos", "webusb"} /\ MaxPlugs \in Nat

VARIABLES
  program, \* "linux", "windows" or "hotplug"
  mutex, pc, box, wtimer, cb, io,
  platform, connected, plugs, fresh, raw, matched, events, waker, armed, callback, woken,
  hpc, hevent, known, stalled, missed

W == INSTANCE WindowsControl WITH timer <- wtimer
H == INSTANCE Hotplug WITH pc <- hpc, event <- hevent

windows == <<mutex, pc, box, wtimer, cb, io>>
hotplug == <<platform, connected, plugs, fresh, raw, matched, events, waker, armed, callback,
             woken, hpc, hevent, known, stalled, missed>>

\* One initial state of what the program does not use.
MCInit ==
  /\ Init /\ W!ControlInit /\ H!Init /\ program \in {"linux", "windows", "hotplug"}
  /\ program # "hotplug" => platform = "linux" /\ connected = {}

OnLinux == program = "linux" /\ UNCHANGED <<program, windows, hotplug>>
OnWindows == program = "windows" /\ UNCHANGED <<program, vars, hotplug>>
Watching == program = "hotplug" /\ UNCHANGED <<program, vars, windows>>

MCNext ==
  \/ Next /\ OnLinux
  \/ W!ControlNext /\ OnWindows
  \/ H!Next /\ Watching

all == <<vars, windows, hotplug, program>>

\* The fairness of the three modules, each in its program.
MCSpec ==
  /\ MCInit /\ [][MCNext]_all
  /\ WF_all(Tick /\ OnLinux)
  /\ WF_all(\/ EventStep /\ OnLinux
            \/ (H!EpollReady \/ H!CallbackQueues \/ H!ListenerQueues) /\ Watching)
  /\ WF_all(H!Wake /\ Watching) /\ WF_all(H!TaskStep /\ Watching)
  /\ SF_all(EventStep /\ lock' = EventThread /\ OnLinux)
  /\ \A t \in Transfers : SF_all(\/ SubmitStep(t) /\ OnLinux
                                 \/ W!Progress(t) /\ OnWindows)

\* See LinuxTimeouts, WindowsControl and Hotplug.
CallbacksTypeOK == TypeOK /\ W!ControlTypeOK /\ H!TypeOK
MapConverges == H!MapConverges

\* What refers to a transfer by its address, an entry of the map or a timer, never
\* outlives it; and what should end it is there as long as it is needed.
NothingStale ==
  /\ NoStaleEntry /\ CompleteOnlyIfRefused /\ TimerCoversTimeouts
  /\ W!TimerReferencesPending /\ W!NoStrayTimer

\* A control transfer with a timeout ends even if the device never answers:
\* DeadlineEndsTransfer of LinuxTimeouts, TimerEndsTransfer of WindowsControl, where a
\* timer that cannot be created is the end of the process.
Running(t) == spc[t] = "insert" \/ box[t] \in {"pending", "abandoned"}
Over(t) ==
  IF program # "windows" THEN urb[t] \in {"refused", "completed"} ELSE box[t] \in {"free", "owned"} \/ mutex = Poisoned
TimeoutsEndTransfers == \A t \in Transfers : Running(t) ~> Over(t)
=============================================================================
