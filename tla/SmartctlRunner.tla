--------------------------- MODULE SmartctlRunner ---------------------------
(***************************************************************************)
(* One call of ExecRunner.Collect (pkg/smartmontools/runner.go): a         *)
(* smartctl process with a deadline, killed when the deadline expires or   *)
(* the context of the caller is cancelled, and the classification of how   *)
(* it ended.  The device may fall asleep, wake up, disappear and come back *)
(* at any time, and the system may kill the process.  Before the call, a   *)
(* user has typed the extra arguments of the resource's spec.              *)
(*                                                                         *)
(* An exit status is the set of its bits.  ExitCode returns -1 for a       *)
(* process that was killed: all bits are set.                              *)
(***************************************************************************)
EXTENDS Naturals, Sequences, CommandArgs
LOCAL INSTANCE SequencesExt

CONSTANTS
    MaxInput,     \* bound: characters of extraCmdArgs
    ArgKinds,     \* arguments that are "ok" for smartctl or "unknown" to it
    CanKill,      \* whether the system may kill smartctl (out of memory)
    MaxChanges    \* bound: changes of the device

ASSUME KindsAssumption ==
    ArgKinds \subseteq {"ok", "unknown"} /\ CanKill \in BOOLEAN
ASSUME BoundsAssumption == MaxInput \in Nat /\ MaxChanges \in Nat

VARIABLES
    device,    \* the node at devicePath and the disk behind it
    input,     \* extraCmdArgs, until it is split
    args,      \* what smartctl makes of the arguments
    proc,      \* the smartctl process
    pc,        \* the next step of Collect
    expired,   \* the deadline of execCtx has passed
    cancelled, \* the caller's ctx is cancelled
    output,    \* how the run ended: exit status, JSON and stderr
    result,    \* what Collect returns
    history,   \* history: what the device has been since the call began
    changes    \* how many changes of the device are left

environment == <<device, input, args, history, changes>>
context == <<expired, cancelled>>
run == <<proc, output>>
vars == <<environment, context, run, pc, result>>

-----------------------------------------------------------------------------
(* The device and smartctl.                                                *)

Devices == [node : BOOLEAN, openable : BOOLEAN, asleep : BOOLEAN,
            smart : {"ok", "failing", "disabled", "undetectable", "refused"}]

AllBits == 0 .. 7
\* What the messages, or stderr, say.
Texts == {"none", "lowpower", "unsupported", "other"}
Outputs == [error : BOOLEAN, exit : SUBSET AllBits, json : BOOLEAN,
            messages : Texts, stderr : Texts, support : BOOLEAN]

Output(exit, messages) ==
    [error |-> FALSE, exit |-> exit, json |-> TRUE, messages |-> messages,
     stderr |-> "none", support |-> TRUE]
NoOutput == Output({}, "none")

\* How smartctl ends by itself on the device d.  A device type it cannot detect,
\* a mandatory command that fails and an inappropriate ioctl read "unsupported";
\* a broken link may read like the first.
Ends(d) ==
    IF args = "unknown" THEN {Output({0}, "other")}
    ELSE IF ~d.node
    THEN {Output({0}, "unsupported"), Output({1}, "other")}
    ELSE IF ~d.openable THEN {Output({1}, "other")}
    ELSE IF d.asleep THEN {Output({1}, "lowpower")}
    ELSE CASE d.smart = "ok" -> {Output({}, "none"), Output({2}, "other")}
           [] d.smart = "failing" -> {Output({3, 4}, "none"), Output({6}, "other")}
           [] d.smart = "disabled" ->
                {[Output(e, "none") EXCEPT !.support = FALSE] : e \in {{}, {2}}}
           [] d.smart = "undetectable" -> {Output({0}, "unsupported")}
           [] d.smart = "refused" -> {Output({2}, "unsupported")}

\* A smartctl without --json, or one that crashes, prints no JSON.
Garbled(o) == [o EXCEPT !.json = FALSE, !.messages = "none", !.stderr = o.messages]

\* A killed process has printed its report or has not.
Killed(d) == {[o EXCEPT !.exit = AllBits] : o \in Ends(d)}
             \cup {[Output(AllBits, "none") EXCEPT !.json = FALSE]}

\* Whether the device could be read, could not be opened, or was there after
\* smartctl had ended, at some moment of the call.
Readable(d) == d.node /\ d.openable /\ ~d.asleep
Away(d) == ~d.node \/ ~d.openable
Extend(h, d, ended) ==
    [read |-> h.read \/ Readable(d), away |-> h.away \/ Away(d),
     back |-> ended /\ (h.back \/ d.node)]

History(d) == Extend([read |-> FALSE, away |-> FALSE, back |-> FALSE], d, FALSE)

\* Nobody has called yet; what the device is and what the arguments are worth shows
\* when somebody does.
Init ==
    /\ device = CHOOSE d \in Devices : d.node
    /\ args = "ok" /\ input = <<>>
    /\ proc = "none" /\ pc = "idle"
    /\ expired = FALSE /\ cancelled = FALSE
    /\ output = NoOutput /\ result = "none"
    /\ history = History(device)
    /\ changes = MaxChanges

Characters == {"a", Space, Backslash, Single, Double}

\* A user edits the spec.
UserTypes ==
    /\ pc = "idle" /\ Len(input) < MaxInput
    /\ \E c \in Characters : input' = Append(input, c)
    /\ UNCHANGED <<device, args, history, changes, context, run, pc, result>>

-----------------------------------------------------------------------------
(* Collect.                                                                *)

Returns(r) == result' = r /\ pc' = "done"

\* SplitCommandArgs rejects the extra arguments.
ArgsRejected ==
    /\ pc = "idle" /\ ~SplitCommandArgs(input).ok
    /\ Returns("failed") /\ input' = <<>>
    /\ UNCHANGED <<device, args, history, changes, context, run>>

\* They become arguments of smartctl, for a device that was there when it was
\* discovered.
ArgsAccepted ==
    /\ pc = "idle" /\ SplitCommandArgs(input).ok
    /\ pc' = "start" /\ input' = <<>>
    /\ args' \in IF SplitCommandArgs(input).args = <<>> THEN {"ok"} ELSE ArgKinds
    /\ device' \in {d \in Devices : d.node} /\ history' = History(device')
    /\ UNCHANGED <<changes, context, run, result>>

\* cmd.Run starts the process and waits for it.
StartProcess ==
    /\ pc = "start"
    /\ ~cancelled /\ ~expired
    /\ proc' = "running" /\ pc' = "wait"
    /\ UNCHANGED <<environment, context, output, result>>

\* The binary cannot be executed, or the context has already ended.
StartFails ==
    /\ pc = "start"
    /\ Returns("failed")
    /\ UNCHANGED <<environment, context, run>>

ProcessEnds(outputs) ==
    /\ proc = "running" /\ proc' = "exited"
    /\ output' \in outputs
    /\ history' = Extend(history, device, TRUE)

\* smartctl ends by itself.
SmartctlExits ==
    /\ ProcessEnds(UNION {{o, Garbled(o)} : o \in Ends(device)})
    /\ UNCHANGED <<device, input, args, changes, context, pc, result>>

\* Faulty variant: exec.Command, whose process outlives its context.
NotKilled == FALSE /\ UNCHANGED vars

\* exec.CommandContext kills the process when its context ends.  If the process
\* exits with status 0 all the same, Run returns the error of the context.
ContextKills ==
    /\ expired \/ cancelled
    /\ ProcessEnds(Killed(device) \cup {[NoOutput EXCEPT !.error = TRUE]})
    /\ UNCHANGED <<device, input, args, changes, context, pc, result>>

\* Faulty variant: the deadline is not told from an exit status.
RunIgnoresDeadline ==
    /\ pc = "wait" /\ proc = "exited"
    /\ IF output.error THEN Returns("failed")
       ELSE /\ pc' = IF output.exit # {} THEN "stat" ELSE "classify"
            /\ UNCHANGED result
    /\ UNCHANGED <<environment, context, run>>

\* Faulty variant: the error of the deadline is set and not returned.
RunFallsThrough ==
    /\ pc = "wait" /\ proc = "exited"
    /\ result' = IF output.error \/ (expired /\ ~cancelled) THEN "failed" ELSE "none"
    /\ pc' = IF output.exit # {} THEN "stat" ELSE "classify"
    /\ UNCHANGED <<environment, context, run>>

\* Run returns: an error that is no exit status, a deadline, or an exit status.
\* A context of the caller that ended as well hides the deadline.
RunReturns ==
    /\ pc = "wait" /\ proc = "exited"
    /\ \/ /\ output.error
          /\ Returns("failed")
       \/ /\ ~output.error /\ expired /\ ~cancelled
          /\ Returns("failed")
       \/ /\ ~output.error /\ ~(expired /\ ~cancelled)
          /\ pc' = IF output.exit # {} THEN "stat" ELSE "classify"
          /\ UNCHANGED result
    /\ UNCHANGED <<environment, context, run>>

\* Faulty variant: the device is not looked at.
StatSkipped ==
    /\ pc = "stat"
    /\ pc' = "classify"
    /\ UNCHANGED <<environment, context, run, result>>

\* os.Stat of the device after a failure.
StatDevice ==
    /\ pc = "stat"
    /\ IF device.node THEN pc' = "classify" /\ UNCHANGED result
                      ELSE Returns("missing")
    /\ UNCHANGED <<environment, context, run>>

\* diagnostics: the messages of the JSON output, or else stderr.
Diagnostics(o) == IF o.json /\ o.messages # "none" THEN o.messages ELSE o.stderr

\* Faulty variants: the exit status is looked at before the messages, or not at
\* all.
OutcomeByExit(o) ==
    IF Diagnostics(o) = "unsupported" THEN "unsupported"
    ELSE IF {0, 1} \cap o.exit # {} THEN "missing"
    ELSE IF ~o.json THEN "failed"
    ELSE IF ~o.support THEN "unsupported" ELSE "data"
OutcomeOfOutput(o) ==
    IF Diagnostics(o) = "unsupported" THEN "unsupported"
    ELSE IF ~o.json THEN "failed"
    ELSE IF o.messages = "lowpower" THEN "standby"
    ELSE IF ~o.support THEN "unsupported" ELSE "data"

\* The classification of lines 126-153.
Outcome(o) ==
    IF Diagnostics(o) = "unsupported" THEN "unsupported"
    ELSE IF 1 \in o.exit
    THEN IF o.json /\ o.messages = "lowpower" THEN "standby" ELSE "missing"
    ELSE IF 0 \in o.exit THEN "missing"
    ELSE IF ~o.json THEN "failed"
    ELSE IF ~o.support THEN "unsupported" ELSE "data"

Classify ==
    /\ pc = "classify"
    /\ Returns(Outcome(output))
    /\ UNCHANGED <<environment, context, run>>

-----------------------------------------------------------------------------
(* The surroundings.                                                       *)

\* The clock runs while smartctl does; Collect looks at it once more after that.
DeadlineExpires ==
    /\ pc = "wait" /\ ~expired
    /\ expired' = TRUE
    /\ UNCHANGED <<environment, run, pc, cancelled, result>>

\* The manager stops and cancels the context of Reconcile and of the scan.
Shutdown ==
    /\ pc \notin {"idle", "done"} /\ ~cancelled
    /\ cancelled' = TRUE
    /\ UNCHANGED <<environment, run, pc, expired, result>>

SystemKills ==
    /\ CanKill /\ ProcessEnds(Killed(device))
    /\ UNCHANGED <<device, input, args, changes, context, pc, result>>

DeviceChanges ==
    /\ pc \notin {"idle", "done"} /\ changes > 0 /\ changes' = changes - 1
    /\ \E d \in {[device EXCEPT !.node = ~@], [device EXCEPT !.asleep = ~@]} :
          device' = d /\ history' = Extend(history, d, proc = "exited")
    /\ UNCHANGED <<input, args, context, run, pc, result>>

\* Collect once it has its arguments.
RunSmartctl ==
    \/ StartProcess \/ StartFails \/ ContextKills \/ RunReturns \/ StatDevice
    \/ Classify

Collect ==
    \/ ArgsRejected \/ ArgsAccepted \/ RunSmartctl

Environment ==
    \/ UserTypes \/ SmartctlExits \/ DeadlineExpires \/ Shutdown \/ SystemKills
    \/ DeviceChanges

Next == Collect \/ Environment

Spec == Init /\ [][Next]_vars

\* Time passes and Collect goes on; smartctl may hang for good.
FairSpec == Spec /\ WF_vars(RunSmartctl) /\ WF_vars(DeadlineExpires)

-----------------------------------------------------------------------------
(* Properties.                                                             *)

\* Type invariant.
TypeOK ==
    /\ device \in Devices /\ args \in {"ok", "unknown"}
    /\ proc \in {"none", "running", "exited"}
    /\ input \in Seq(Characters)
    /\ pc \in {"idle", "start", "wait", "stat", "classify", "done"}
    /\ expired \in BOOLEAN /\ cancelled \in BOOLEAN
    /\ output \in Outputs
    /\ result \in {"none", "failed", "missing", "unsupported", "standby", "data"}
    /\ pc = "done" <=> result # "none"
    /\ history \in [read : BOOLEAN, away : BOOLEAN, back : BOOLEAN]
    /\ changes \in 0 .. MaxChanges

\* A run that outlived its deadline is a failed collection: its kill is not taken
\* for a device that is missing or unsupported, nor its report for data.
LateRunFails == result # "none" /\ expired /\ ~cancelled => result = "failed"

\* Health data comes from a disk that was there, open and awake at some moment of
\* the call: neither a failed open, nor --nocheck=standby, nor a kill gives any.
DataWasReadable == result = "data" => history.read

\* "When smartctl is called against a broken symlink or missing node ... without
\* checking existence, this would be falsely classified as ErrSmartUnsupported"
\* (runner.go:116-119): a device that stayed away after a failure is not called
\* unsupported.
AbsentIsNotUnsupported ==
    result = "unsupported" /\ output.exit # {} => history.back

\* A failed open "sets the same exit bit as standby and must not be mistaken for
\* it" (runner_test.go:96-97), nor the other way round: what smartctl itself
\* reports as missing was away at some moment of the call.
MissingWasAway ==
    result = "missing" /\ output.json /\ output.exit # AllBits /\ args = "ok" =>
        history.away

\* ErrDeviceNotFound is "device could not be opened" (runner.go:24): a smartctl
\* that was killed while the device could be opened all the time says no such thing.
KilledIsNotMissing ==
    result = "missing" /\ output.exit = AllBits => history.away

\* Collect returns even if smartctl hangs: the timeout of lines 71-76.
CollectReturns == (pc # "idle") ~> (pc = "done")

\* The ways to write an argument: each character escaped, in double quotes with
\* quotes and backslashes escaped, in single quotes if it has none.
Escaped(s, chars) ==
    FoldLeft(LAMBDA t, c : IF c \in chars THEN t \o <<Backslash, c>> ELSE Append(t, c),
             <<>>, s)
Quotings(arg) ==
    {Escaped(arg, Characters), <<Double>> \o Escaped(arg, {Double, Backslash}) \o <<Double>>}
    \cup (IF \E i \in DOMAIN arg : arg[i] = Single THEN {}
          ELSE {<<Single>> \o arg \o <<Single>>})

\* Every argument smartctl can be given at all can be written in each of the usual
\* quotings and reads back as itself, backslashes and quotes included
\* (cmd_args.go:27-47).
QuotedArgsReadBack ==
    LET split == SplitCommandArgs(input).args IN
    \A i \in DOMAIN split : \A quoted \in Quotings(split[i]) :
        SplitCommandArgs(quoted) = [ok |-> TRUE, args |-> <<split[i]>>]

\* A space outside quotes separates: the arguments of a text are those of what comes
\* before it followed by those of what comes after it, and an error in the second
\* part is an error of the text.  No argument is lost, split, joined or repeated.
SpaceSeparates ==
    \A i \in DOMAIN input :
        LET before == SplitCommandArgs(SubSeq(input, 1, i - 1))
            after == SplitCommandArgs(SubSeq(input, i + 1, Len(input)))
        IN input[i] = Space /\ before.ok =>
            SplitCommandArgs(input) =
                IF after.ok THEN [after EXCEPT !.args = before.args \o @] ELSE after
=============================================================================
