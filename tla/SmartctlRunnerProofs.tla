------------------------ MODULE SmartctlRunnerProofs ------------------------
(***************************************************************************)
(* Proofs about one call of Collect: what each of its results says about   *)
(* the deadline and the device, whatever the device does meanwhile; and    *)
(* about SplitCommandArgs: what separates two arguments of a text, and how *)
(* any argument can be written in one, for texts of any length.            *)
(***************************************************************************)
EXTENDS SmartctlRunner, TLAPS
LOCAL INSTANCE SequencesExt

-----------------------------------------------------------------------------
(* The inductive invariant.                                                *)

\* Where Collect is and how its process fares.  Past the wait, the deadline has not
\* passed or the caller has given up.
InStep ==
    /\ pc \in {"idle", "start"} => proc = "none"
    /\ proc = "running" => pc = "wait"
    /\ pc \in {"stat", "classify"} =>
        proc = "exited" /\ ~output.error /\ (expired => cancelled)

\* The history has the device as it is.
Recorded ==
    /\ Readable(device) => history.read
    /\ Away(device) => history.away
    /\ proc = "exited" /\ device.node => history.back

\* What smartctl says of the device was so at some moment.
Truthful ==
    proc = "exited" =>
        /\ Outcome(output) = "data" /\ ~output.error => history.read
        /\ Outcome(output) = "missing" /\ output.json /\ output.exit # AllBits
           /\ args = "ok" => history.away

\* A failure is classified only after a look at the device.
LookedAt == pc = "classify" /\ output.exit # {} => history.back

IInv ==
    /\ TypeOK /\ InStep /\ Recorded /\ Truthful /\ LookedAt
    /\ LateRunFails /\ DataWasReadable /\ AbsentIsNotUnsupported /\ MissingWasAway

-----------------------------------------------------------------------------
(* Outputs.                                                                *)

\* What Collect makes of a report with a given exit status and message.
LEMMA OutputFacts ==
    ASSUME NEW e \in SUBSET AllBits, NEW t \in Texts, NEW o,
           \/ o = Output(e, t)
           \/ o = [Output(e, t) EXCEPT !.support = FALSE]
    PROVE  /\ o \in Outputs
           /\ t = "unsupported" => Outcome(o) = "unsupported"
           /\ t # "unsupported" /\ 1 \in e =>
                Outcome(o) = IF t = "lowpower" THEN "standby" ELSE "missing"
           /\ t # "unsupported" /\ 0 \in e /\ 1 \notin e => Outcome(o) = "missing"
           /\ t # "unsupported" /\ 0 \notin e /\ 1 \notin e =>
                Outcome(o) \in {"unsupported", "data"}
<1>1. /\ o \in Outputs /\ o.exit = e /\ o.messages = t /\ o.json = TRUE
      /\ o.stderr = "none" /\ o.support \in BOOLEAN
  <2>1. "none" \in Texts  BY DEF Texts
  <2>2. CASE o = Output(e, t)  BY <2>1, <2>2 DEF Output, Outputs
  <2>3. CASE o = [Output(e, t) EXCEPT !.support = FALSE]
    BY <2>1, <2>3 DEF Output, Outputs
  <2> QED BY <2>2, <2>3
<1>2. Diagnostics(o) = "unsupported" <=> t = "unsupported"  BY <1>1 DEF Diagnostics
<1> QED BY <1>1, <1>2 DEF Outcome

\* A report on the device d, by smartctl itself.
LEMMA EndsFacts ==
    ASSUME NEW d \in Devices, NEW o \in Ends(d)
    PROVE  /\ o \in Outputs
           /\ Outcome(o) = "data" => Readable(d)
           /\ Outcome(o) = "missing" /\ args = "ok" => Away(d)
<1>1. /\ {} \in SUBSET AllBits /\ {0} \in SUBSET AllBits /\ {1} \in SUBSET AllBits
      /\ {2} \in SUBSET AllBits /\ {3, 4} \in SUBSET AllBits /\ {6} \in SUBSET AllBits
      /\ "none" \in Texts /\ "lowpower" \in Texts
      /\ "unsupported" \in Texts /\ "other" \in Texts
  BY DEF AllBits, Texts
<1>2. ASSUME NEW t \in Texts, o = Output({0}, t)
      PROVE  o \in Outputs /\ Outcome(o) \in {"unsupported", "missing"}
             /\ (t = "unsupported" => Outcome(o) = "unsupported")
  <2> DEFINE e == {0}
  <2>1. e \in SUBSET AllBits /\ 0 \in e /\ 1 \notin e /\ o = Output(e, t)  BY <1>1, <1>2
  <2> HIDE DEF e
  <2> QED BY <2>1, OutputFacts
<1>3. ASSUME NEW t \in Texts, o = Output({1}, t), t # "unsupported"
      PROVE  o \in Outputs /\ Outcome(o) = IF t = "lowpower" THEN "standby" ELSE "missing"
  <2> DEFINE e == {1}
  <2>1. e \in SUBSET AllBits /\ 1 \in e /\ o = Output(e, t)  BY <1>1, <1>3
  <2> HIDE DEF e
  <2> QED BY <1>3, <2>1, OutputFacts
<1>4. ASSUME NEW e \in {{}, {2}, {3, 4}, {6}}, NEW t \in Texts,
             o = Output(e, t) \/ o = [Output(e, t) EXCEPT !.support = FALSE]
      PROVE  o \in Outputs /\ Outcome(o) \in {"unsupported", "data"}
  <2>1. e \in SUBSET AllBits /\ 0 \notin e /\ 1 \notin e  BY <1>1
  <2> QED BY <1>4, <2>1, OutputFacts
<1>5. CASE args = "unknown"
  <2>1. o = Output({0}, "other")  BY <1>5 DEF Ends
  <2> QED BY <1>1, <1>2, <1>5, <2>1
<1>6. CASE args # "unknown" /\ ~d.node
  <2>1. o = Output({0}, "unsupported") \/ o = Output({1}, "other")  BY <1>6 DEF Ends
  <2>2. o \in Outputs /\ Outcome(o) # "data"  BY <1>1, <1>2, <1>3, <2>1
  <2> QED BY <1>6, <2>2 DEF Away
<1>7. CASE args # "unknown" /\ d.node /\ ~d.openable
  <2>1. o = Output({1}, "other")  BY <1>7 DEF Ends
  <2>2. o \in Outputs /\ Outcome(o) # "data"  BY <1>1, <1>3, <2>1
  <2> QED BY <1>7, <2>2 DEF Away
<1>8. CASE args # "unknown" /\ d.node /\ d.openable /\ d.asleep
  <2>1. o = Output({1}, "lowpower")  BY <1>8 DEF Ends
  <2> QED BY <1>1, <1>3, <2>1
<1>9. CASE args # "unknown" /\ d.node /\ d.openable /\ ~d.asleep
  <2>1. d.smart \in {"ok", "failing", "disabled", "undetectable", "refused"}
    BY DEF Devices
  <2>2. o \in Outputs /\ Outcome(o) # "missing"
    <3>1. CASE d.smart = "ok"
      <4>1. o = Output({}, "none") \/ o = Output({2}, "other")
        BY <1>9, <3>1 DEF Ends
      <4> QED BY <1>1, <1>4, <4>1
    <3>2. CASE d.smart = "failing"
      <4>1. o = Output({3, 4}, "none") \/ o = Output({6}, "other")
        BY <1>9, <3>2 DEF Ends
      <4> QED BY <1>1, <1>4, <4>1
    <3>3. CASE d.smart = "disabled"
      <4>1. \E e \in {{}, {2}} : o = [Output(e, "none") EXCEPT !.support = FALSE]
        BY <1>9, <3>3 DEF Ends
      <4> QED BY <1>1, <1>4, <4>1
    <3>4. CASE d.smart = "undetectable"
      <4>1. o = Output({0}, "unsupported")
        BY <1>9, <3>4 DEF Ends
      <4> QED BY <1>1, <1>2, <4>1
    <3>5. CASE d.smart = "refused"
      <4>1. o = Output({2}, "unsupported")
        BY <1>9, <3>5 DEF Ends
      <4> QED BY <1>1, <1>4, <4>1
    <3> QED BY <2>1, <3>1, <3>2, <3>3, <3>4, <3>5
  <2> QED BY <1>9, <2>2 DEF Readable
<1> QED BY <1>5, <1>6, <1>7, <1>8, <1>9

\* Without JSON there is no data.
LEMMA GarbledFacts ==
    ASSUME NEW o \in Outputs
    PROVE  /\ Garbled(o) \in Outputs /\ Garbled(o).json = FALSE
           /\ Outcome(Garbled(o)) # "data"
<1>1. Garbled(o) \in Outputs /\ Garbled(o).json = FALSE
  BY DEF Garbled, Outputs, Texts
<1> QED BY <1>1 DEF Outcome

\* Nor is there any from a process that was killed.
LEMMA KilledFacts ==
    ASSUME NEW d \in Devices, NEW o \in Killed(d)
    PROVE  o \in Outputs /\ o.exit = AllBits /\ Outcome(o) # "data"
<1>1. 1 \in AllBits /\ AllBits \in SUBSET AllBits  BY DEF AllBits
<1>2. o \in Outputs /\ o.exit = AllBits
  <2>1. CASE \E p \in Ends(d) : o = [p EXCEPT !.exit = AllBits]
    <3>1. PICK p \in Ends(d) : o = [p EXCEPT !.exit = AllBits]  BY <2>1
    <3>2. p \in Outputs  BY EndsFacts
    <3> QED BY <3>1, <3>2 DEF Outputs
  <2>2. CASE o = [Output(AllBits, "none") EXCEPT !.json = FALSE]
    BY <2>2 DEF Output, Outputs, Texts
  <2> QED BY <2>1, <2>2 DEF Killed
<1> QED BY <1>1, <1>2 DEF Outcome

-----------------------------------------------------------------------------
(* Steps.                                                                  *)

\* What Outcome gives, and what the history keeps.
LEMMA OutcomeType ==
    ASSUME NEW o
    PROVE  Outcome(o) \in {"failed", "missing", "unsupported", "standby", "data"}
BY DEF Outcome

\* The history keeps what it has and adds what the device is now.
LEMMA ExtendFacts ==
    ASSUME NEW h \in [read : BOOLEAN, away : BOOLEAN, back : BOOLEAN],
           NEW d \in Devices, NEW ended \in BOOLEAN
    PROVE  LET g == Extend(h, d, ended) IN
           /\ g \in [read : BOOLEAN, away : BOOLEAN, back : BOOLEAN]
           /\ g.read <=> h.read \/ Readable(d)
           /\ g.away <=> h.away \/ Away(d)
           /\ g.back <=> ended /\ (h.back \/ d.node)
BY DEF Extend, Readable, Away, Devices

\* A call begins with the history of the device as it is.
LEMMA HistoryFacts ==
    ASSUME NEW d \in Devices
    PROVE  /\ History(d) \in [read : BOOLEAN, away : BOOLEAN, back : BOOLEAN]
           /\ Readable(d) => History(d).read
           /\ Away(d) => History(d).away
BY DEF History, Extend, Readable, Away, Devices

\* The process ends by itself or is killed: what it leaves behind is truthful.
LEMMA ProcessEndsIInv ==
    ASSUME IInv, NEW outputs, ProcessEnds(outputs),
           UNCHANGED <<device, input, args, changes, context, pc, result>>,
           \A o \in outputs :
                /\ o \in Outputs
                /\ Outcome(o) = "data" /\ ~o.error => Readable(device)
                /\ Outcome(o) = "missing" /\ o.json /\ o.exit # AllBits
                   /\ args = "ok" => Away(device)
    PROVE  IInv'
<1>1. /\ UNCHANGED <<device, input, args, changes, expired, cancelled, pc, result>>
      /\ proc = "running" /\ proc' = "exited" /\ output' \in outputs
      /\ history' = Extend(history, device, TRUE)
  BY DEF ProcessEnds, context
<1>2. pc = "wait" /\ result = "none"  BY <1>1 DEF IInv, InStep, TypeOK
<1>3. /\ history' \in [read : BOOLEAN, away : BOOLEAN, back : BOOLEAN]
      /\ history'.read <=> history.read \/ Readable(device)
      /\ history'.away <=> history.away \/ Away(device)
      /\ history'.back <=> history.back \/ device.node
  BY <1>1, ExtendFacts DEF IInv, TypeOK
<1>4. TypeOK'  BY <1>1, <1>3 DEF IInv, TypeOK
<1>5. InStep' /\ LookedAt'  BY <1>1, <1>2 DEF InStep, LookedAt
<1>6. Recorded'  BY <1>1, <1>3 DEF Recorded, Readable, Away
<1>7. Truthful'
  <2>1. /\ Outcome(output)' = "data" /\ ~output'.error => history'.read
        /\ Outcome(output)' = "missing" /\ output'.json /\ output'.exit # AllBits
           /\ args = "ok" => history'.away
    BY <1>1, <1>3 DEF Outcome, Diagnostics
  <2> QED BY <1>1, <2>1 DEF Truthful
<1>8. LateRunFails' /\ DataWasReadable' /\ AbsentIsNotUnsupported' /\ MissingWasAway'
  BY <1>1, <1>2 DEF LateRunFails, DataWasReadable, AbsentIsNotUnsupported,
     MissingWasAway
<1> QED BY <1>4, <1>5, <1>6, <1>7, <1>8 DEF IInv

\* smartctl ends by itself, with or without JSON.
LEMMA SmartctlExitsIInv ==
    ASSUME IInv, SmartctlExits
    PROVE  IInv'
<1> DEFINE outputs == UNION {{o, Garbled(o)} : o \in Ends(device)}
<1>1. device \in Devices  BY DEF IInv, TypeOK
<1>2. ASSUME NEW o \in outputs
      PROVE  /\ o \in Outputs
             /\ Outcome(o) = "data" /\ ~o.error => Readable(device)
             /\ Outcome(o) = "missing" /\ o.json /\ o.exit # AllBits
                /\ args = "ok" => Away(device)
  <2>1. PICK p \in Ends(device) : o = p \/ o = Garbled(p)  OBVIOUS
  <2>2. CASE o = p  BY <1>1, <2>2, EndsFacts
  <2>3. CASE o = Garbled(p)  BY <1>1, <2>3, EndsFacts, GarbledFacts
  <2> QED BY <2>1, <2>2, <2>3
<1>3. /\ ProcessEnds(outputs)
      /\ UNCHANGED <<device, input, args, changes, context, pc, result>>
  BY DEF SmartctlExits
<1> HIDE DEF outputs
<1> QED BY <1>2, <1>3, ProcessEndsIInv

\* It is killed, by exec or by the system.
LEMMA KillsIInv ==
    ASSUME IInv, ContextKills \/ SystemKills
    PROVE  IInv'
<1>1. device \in Devices  BY DEF IInv, TypeOK
<1> DEFINE late == [NoOutput EXCEPT !.error = TRUE]
<1>2. late \in Outputs /\ late.error = TRUE /\ late.exit = {} /\ late.json = TRUE
      /\ late.messages = "none" /\ late.support = TRUE /\ late.stderr = "none"
  BY DEF NoOutput, Output, Outputs, Texts
<1>3. Outcome(late) = "data"  BY <1>2 DEF Outcome, Diagnostics
<1> HIDE DEF late
<1>4. ASSUME NEW o \in Killed(device) \cup {late}
      PROVE  /\ o \in Outputs
             /\ Outcome(o) = "data" /\ ~o.error => Readable(device)
             /\ Outcome(o) = "missing" /\ o.json /\ o.exit # AllBits
                /\ args = "ok" => Away(device)
  BY <1>1, <1>2, <1>3, KilledFacts
<1>5. CASE ContextKills
  <2>1. /\ ProcessEnds(Killed(device) \cup {late})
        /\ UNCHANGED <<device, input, args, changes, context, pc, result>>
    BY <1>5 DEF ContextKills, late
  <2> QED BY <1>4, <2>1, ProcessEndsIInv
<1>6. CASE SystemKills
  <2>1. /\ ProcessEnds(Killed(device))
        /\ UNCHANGED <<device, input, args, changes, context, pc, result>>
    BY <1>6 DEF SystemKills
  <2> QED BY <1>4, <2>1, ProcessEndsIInv
<1> QED BY <1>5, <1>6

\* Before the process runs.
LEMMA UserTypesIInv ==
    ASSUME IInv, UserTypes
    PROVE  IInv'
<1>1. /\ UNCHANGED <<device, args, history, changes, expired, cancelled, proc, output,
                     pc, result>>
      /\ \E c \in Characters : input' = Append(input, c)
  BY DEF UserTypes, context, run
<1>2. input' \in Seq(Characters)  BY <1>1 DEF IInv, TypeOK
<1>3. TypeOK'  BY <1>1, <1>2 DEF IInv, TypeOK
<1>4. InStep' /\ Recorded' /\ Truthful' /\ LookedAt'
  BY <1>1 DEF IInv, InStep, Recorded, Readable, Away, Truthful, Outcome, Diagnostics,
     LookedAt
<1> QED BY <1>1, <1>3, <1>4 DEF IInv, LateRunFails, DataWasReadable,
           AbsentIsNotUnsupported, MissingWasAway

\* Collect begins for a device that was there when it was discovered.
LEMMA ArgsAcceptedIInv ==
    ASSUME IInv, ArgsAccepted
    PROVE  IInv'
<1>1. /\ UNCHANGED <<changes, expired, cancelled, proc, output, result>>
      /\ pc = "idle" /\ pc' = "start" /\ input' = <<>>
      /\ args' \in {"ok"} \cup ArgKinds
      /\ device' \in Devices /\ history' = History(device')
  BY DEF ArgsAccepted, context, run
<1>2. /\ history' \in [read : BOOLEAN, away : BOOLEAN, back : BOOLEAN]
      /\ Readable(device') => history'.read
      /\ Away(device') => history'.away
  BY <1>1, HistoryFacts
<1>3. result = "none" /\ proc = "none"  BY <1>1 DEF IInv, TypeOK, InStep
<1>4. input' \in Seq(Characters) /\ args' \in {"ok", "unknown"}
  BY <1>1, KindsAssumption
<1>5. TypeOK'  BY <1>1, <1>2, <1>3, <1>4 DEF IInv, TypeOK
<1>6. InStep' /\ Recorded' /\ Truthful' /\ LookedAt'
  BY <1>1, <1>2, <1>3 DEF InStep, Recorded, Readable, Away, Truthful, LookedAt
<1> QED BY <1>1, <1>3, <1>5, <1>6 DEF IInv, LateRunFails, DataWasReadable,
           AbsentIsNotUnsupported, MissingWasAway

\* Collect gives up before it has an exit status.
LEMMA FailsIInv ==
    ASSUME IInv, proc # "running", Returns("failed"), input' \in Seq(Characters),
           UNCHANGED <<device, args, history, changes, context, run>>
    PROVE  IInv'
<1>1. /\ UNCHANGED <<device, args, history, changes, expired, cancelled, proc, output>>
      /\ pc' = "done" /\ result' = "failed"
  BY DEF Returns, context, run
<1>2. TypeOK'  BY <1>1 DEF IInv, TypeOK
<1>3. InStep' /\ LookedAt'  BY <1>1 DEF InStep, LookedAt
<1>4. Recorded' /\ Truthful'
  BY <1>1 DEF IInv, Recorded, Readable, Away, Truthful, Outcome, Diagnostics
<1> QED BY <1>1, <1>2, <1>3, <1>4 DEF IInv, LateRunFails, DataWasReadable,
           AbsentIsNotUnsupported, MissingWasAway

\* The process starts, Run returns, or the device is looked at: Collect goes on.
LEMMA StartProcessIInv ==
    ASSUME IInv, StartProcess
    PROVE  IInv'
<1>1. /\ UNCHANGED <<device, input, args, history, changes, expired, cancelled, output,
                     result>>
      /\ pc = "start" /\ pc' = "wait" /\ proc' = "running"
  BY DEF StartProcess, environment, context
<1>2. TypeOK'  BY <1>1 DEF IInv, TypeOK
<1>3. InStep' /\ LookedAt' /\ Recorded' /\ Truthful'
  BY <1>1 DEF IInv, InStep, LookedAt, Recorded, Readable, Away, Truthful
<1> QED BY <1>1, <1>2, <1>3 DEF IInv, LateRunFails, DataWasReadable,
           AbsentIsNotUnsupported, MissingWasAway

\* A deadline that has passed ends the call here, unless the caller has cancelled it.
LEMMA RunReturnsIInv ==
    ASSUME IInv, RunReturns
    PROVE  IInv'
<1>1. /\ UNCHANGED <<device, input, args, history, changes, context, run>>
      /\ pc = "wait" /\ proc = "exited"
  BY DEF RunReturns, environment
<1>2. input' \in Seq(Characters)  BY <1>1 DEF IInv, TypeOK
<1>3. CASE Returns("failed")  BY <1>1, <1>2, <1>3, FailsIInv
<1>4. CASE /\ ~output.error /\ ~(expired /\ ~cancelled)
           /\ pc' = IF output.exit # {} THEN "stat" ELSE "classify"
           /\ UNCHANGED result
  <2>1. UNCHANGED <<device, input, args, history, changes, expired, cancelled, proc,
                    output, result>>
    BY <1>1, <1>4 DEF context, run
  <2>2. TypeOK'  BY <1>1, <1>4, <2>1 DEF IInv, TypeOK
  <2>3. InStep' /\ LookedAt'  BY <1>1, <1>4, <2>1 DEF InStep, LookedAt
  <2>4. Recorded' /\ Truthful'
    BY <2>1 DEF IInv, Recorded, Readable, Away, Truthful, Outcome, Diagnostics
  <2> QED BY <2>1, <2>2, <2>3, <2>4 DEF IInv, LateRunFails, DataWasReadable,
             AbsentIsNotUnsupported, MissingWasAway
<1> QED BY <1>3, <1>4 DEF RunReturns

\* A device that is there now was there after smartctl had ended.
LEMMA StatDeviceIInv ==
    ASSUME IInv, StatDevice
    PROVE  IInv'
<1>1. /\ UNCHANGED <<device, input, args, history, changes, expired, cancelled, proc,
                     output>>
      /\ pc = "stat"
      /\ \/ device.node /\ pc' = "classify" /\ result' = result
         \/ ~device.node /\ pc' = "done" /\ result' = "missing"
  BY DEF StatDevice, Returns, environment, context, run
<1>2. proc = "exited" /\ ~output.error /\ (expired => cancelled)
  BY <1>1 DEF IInv, InStep
<1>3. TypeOK'  BY <1>1 DEF IInv, TypeOK
<1>4. InStep'  BY <1>1, <1>2 DEF InStep
<1>5. Recorded' /\ Truthful'
  BY <1>1 DEF IInv, Recorded, Readable, Away, Truthful, Outcome, Diagnostics
<1>6. LookedAt'  BY <1>1, <1>2 DEF IInv, Recorded, LookedAt
<1>7. ~device.node => history.away  BY DEF IInv, Recorded, Away
<1>8. result = "none"  BY <1>1 DEF IInv, TypeOK
<1> QED BY <1>1, <1>2, <1>3, <1>4, <1>5, <1>6, <1>7, <1>8
        DEF IInv, LateRunFails, DataWasReadable, AbsentIsNotUnsupported, MissingWasAway

\* The result is what the output says.
LEMMA ClassifyIInv ==
    ASSUME IInv, Classify
    PROVE  IInv'
<1>1. /\ UNCHANGED <<device, input, args, history, changes, expired, cancelled, proc,
                     output>>
      /\ pc = "classify" /\ pc' = "done" /\ result' = Outcome(output)
  BY DEF Classify, Returns, environment, context, run
<1>2. Outcome(output) \in {"failed", "missing", "unsupported", "standby", "data"}
  BY OutcomeType
<1>3. proc = "exited" /\ ~output.error /\ (expired => cancelled)
  BY <1>1 DEF IInv, InStep
<1>4. TypeOK'  BY <1>1, <1>2 DEF IInv, TypeOK
<1>5. InStep' /\ LookedAt'  BY <1>1, <1>3 DEF InStep, LookedAt
<1>6. Recorded' /\ Truthful'
  BY <1>1 DEF IInv, Recorded, Readable, Away, Truthful, Outcome, Diagnostics
<1>7. LateRunFails'  BY <1>1, <1>3 DEF LateRunFails
<1>8. DataWasReadable' /\ MissingWasAway'
  BY <1>1, <1>3 DEF IInv, Truthful, DataWasReadable, MissingWasAway
<1>9. AbsentIsNotUnsupported'
  BY <1>1 DEF IInv, LookedAt, AbsentIsNotUnsupported
<1> QED BY <1>4, <1>5, <1>6, <1>7, <1>8, <1>9 DEF IInv

\* The clock, the caller and the device, while the call lasts.
LEMMA DeadlineIInv ==
    ASSUME IInv, DeadlineExpires
    PROVE  IInv'
<1>1. /\ UNCHANGED <<device, input, args, history, changes, proc, output, pc, cancelled,
                     result>>
      /\ pc = "wait" /\ expired' = TRUE
  BY DEF DeadlineExpires, environment, run
<1>2. TypeOK' /\ result = "none"  BY <1>1 DEF IInv, TypeOK
<1>3. InStep' /\ LookedAt'  BY <1>1 DEF IInv, InStep, LookedAt
<1>4. Recorded' /\ Truthful'
  BY <1>1 DEF IInv, Recorded, Readable, Away, Truthful, Outcome, Diagnostics
<1> QED BY <1>1, <1>2, <1>3, <1>4 DEF IInv, LateRunFails, DataWasReadable,
           AbsentIsNotUnsupported, MissingWasAway

\* The caller gives up.
LEMMA ShutdownIInv ==
    ASSUME IInv, Shutdown
    PROVE  IInv'
<1>1. /\ UNCHANGED <<device, input, args, history, changes, proc, output, pc, expired,
                     result>>
      /\ cancelled' = TRUE
  BY DEF Shutdown, environment, run
<1>2. TypeOK'  BY <1>1 DEF IInv, TypeOK
<1>3. InStep' /\ LookedAt'  BY <1>1 DEF IInv, InStep, LookedAt
<1>4. Recorded' /\ Truthful'
  BY <1>1 DEF IInv, Recorded, Readable, Away, Truthful, Outcome, Diagnostics
<1> QED BY <1>1, <1>2, <1>3, <1>4 DEF IInv, LateRunFails, DataWasReadable,
           AbsentIsNotUnsupported, MissingWasAway

\* The device vanishes, returns, falls asleep or wakes up.
LEMMA DeviceChangesIInv ==
    ASSUME IInv, DeviceChanges
    PROVE  IInv'
<1>1. PICK d \in {[device EXCEPT !.node = ~@], [device EXCEPT !.asleep = ~@]} :
        device' = d /\ history' = Extend(history, d, proc = "exited")
  BY DEF DeviceChanges
<1>2. /\ UNCHANGED <<input, args, expired, cancelled, proc, output, pc, result>>
      /\ pc \notin {"idle", "done"} /\ changes > 0 /\ changes' = changes - 1
  BY DEF DeviceChanges, context, run
<1>3. device' \in Devices  BY <1>1 DEF IInv, TypeOK, Devices
<1>4. /\ history' \in [read : BOOLEAN, away : BOOLEAN, back : BOOLEAN]
      /\ history'.read <=> history.read \/ Readable(device')
      /\ history'.away <=> history.away \/ Away(device')
      /\ history'.back <=> proc = "exited" /\ (history.back \/ device'.node)
  BY <1>1, <1>3, ExtendFacts DEF IInv, TypeOK
<1>5. changes' \in 0 .. MaxChanges  BY <1>2, BoundsAssumption DEF IInv, TypeOK
<1>6. TypeOK' /\ result = "none"
  <2>1. TypeOK'  BY <1>2, <1>3, <1>4, <1>5 DEF IInv, TypeOK
  <2>2. result = "none"  BY <1>2 DEF IInv, TypeOK
  <2> QED BY <2>1, <2>2
<1>7. InStep'  BY <1>2 DEF IInv, InStep
<1>8. Recorded'  BY <1>2, <1>4 DEF Recorded, Readable, Away
<1>9. Truthful'  BY <1>2, <1>4 DEF IInv, Truthful, Outcome, Diagnostics
<1>10. LookedAt'  BY <1>2, <1>4 DEF IInv, InStep, LookedAt
<1> QED BY <1>2, <1>6, <1>7, <1>8, <1>9, <1>10 DEF IInv, LateRunFails, DataWasReadable,
           AbsentIsNotUnsupported, MissingWasAway

-----------------------------------------------------------------------------
(* Theorems.                                                               *)

\* Before the call.
LEMMA InitIInv ==
    ASSUME Init
    PROVE  IInv
<1>1. device \in Devices
  <2>1. \E d \in Devices : d.node
    <3> DEFINE d == [node |-> TRUE, openable |-> TRUE, asleep |-> TRUE, smart |-> "ok"]
    <3>1. d \in Devices /\ d.node  BY DEF Devices
    <3> QED BY <3>1
  <2> QED BY <2>1 DEF Init
<1>2. /\ history \in [read : BOOLEAN, away : BOOLEAN, back : BOOLEAN]
      /\ Readable(device) => history.read
      /\ Away(device) => history.away
  BY <1>1, HistoryFacts DEF Init
<1>3. output \in Outputs
  BY DEF Init, NoOutput, Output, Outputs, Texts
<1>4. changes \in 0 .. MaxChanges  BY BoundsAssumption DEF Init
<1>5. TypeOK
  <2>1. input \in Seq(Characters)  BY DEF Init
  <2> QED BY <1>1, <1>2, <1>3, <1>4, <2>1 DEF Init, TypeOK
<1>6. InStep /\ Recorded /\ Truthful /\ LookedAt
  BY <1>2 DEF Init, InStep, Recorded, Truthful, LookedAt
<1> QED BY <1>5, <1>6 DEF Init, IInv, LateRunFails, DataWasReadable,
           AbsentIsNotUnsupported, MissingWasAway

\* Every step of Collect, of smartctl and of the device preserves the invariant.
LEMMA NextIInv ==
    ASSUME IInv, [Next]_vars
    PROVE  IInv'
<1>1. CASE ArgsRejected
  <2>1. proc = "none"  BY <1>1 DEF ArgsRejected, IInv, InStep
  <2>2. input' \in Seq(Characters)  BY <1>1 DEF ArgsRejected
  <2> QED BY <1>1, <2>1, <2>2, FailsIInv DEF ArgsRejected
<1>2. CASE StartFails
  <2>1. proc = "none"  BY <1>2 DEF StartFails, IInv, InStep
  <2>2. input' \in Seq(Characters)
    BY <1>2 DEF StartFails, environment, IInv, TypeOK
  <2> QED BY <1>2, <2>1, <2>2, FailsIInv DEF StartFails, environment
<1>3. CASE UNCHANGED vars
  <2>1. UNCHANGED <<device, input, args, history, changes, expired, cancelled, proc,
                    output, pc, result>>
    BY <1>3 DEF vars, environment, context, run
  <2>2. TypeOK' /\ InStep' /\ LookedAt'
    BY <2>1 DEF IInv, TypeOK, InStep, LookedAt
  <2>3. Recorded' /\ Truthful'
    BY <2>1 DEF IInv, Recorded, Readable, Away, Truthful, Outcome, Diagnostics
  <2> QED BY <2>1, <2>2, <2>3 DEF IInv, LateRunFails, DataWasReadable,
             AbsentIsNotUnsupported, MissingWasAway
<1> QED BY <1>1, <1>2, <1>3, ArgsAcceptedIInv, StartProcessIInv, KillsIInv,
           RunReturnsIInv, StatDeviceIInv, ClassifyIInv, UserTypesIInv,
           SmartctlExitsIInv, DeadlineIInv, ShutdownIInv, DeviceChangesIInv
        DEF Next, Collect, RunSmartctl, Environment

\* The inductive invariant holds: the history of the device and the output of
\* smartctl agree at every step of Collect.
THEOREM Invariant == Spec => []IInv
<1>1. Init => IInv  BY InitIInv
<1>2. IInv /\ [Next]_vars => IInv'  BY NextIInv
<1> QED BY <1>1, <1>2, PTL DEF Spec

\* Types, and Collect has returned if and only if it has a result.
THEOREM TypeCorrect == Spec => []TypeOK
<1>1. IInv => TypeOK  BY DEF IInv
<1> QED BY <1>1, Invariant, PTL

\* A run that outlived its deadline fails, however it was killed and whatever it had
\* printed, unless the caller had given up as well.
THEOREM LateFails == Spec => []LateRunFails
<1>1. IInv => LateRunFails  BY DEF IInv
<1> QED BY <1>1, Invariant, PTL

\* Data comes from a disk that was there, open and awake during the call, however
\* often it vanished, slept and came back.
THEOREM DataReadable == Spec => []DataWasReadable
<1>1. IInv => DataWasReadable  BY DEF IInv
<1> QED BY <1>1, Invariant, PTL

\* The look at the device keeps a broken link from being taken for an unsupported
\* disk.
THEOREM AbsentNotUnsupported == Spec => []AbsentIsNotUnsupported
<1>1. IInv => AbsentIsNotUnsupported  BY DEF IInv
<1> QED BY <1>1, Invariant, PTL

\* What smartctl itself reports as missing was away during the call; standby is not
\* mistaken for it.
THEOREM MissingAway == Spec => []MissingWasAway
<1>1. IInv => MissingWasAway  BY DEF IInv
<1> QED BY <1>1, Invariant, PTL

-----------------------------------------------------------------------------
(* Splitting the extra arguments.                                          *)

\* The loop of SplitCommandArgs.
Loop == INSTANCE FoldFacts WITH Op <- Read, Base <- Scanner

State(arguments, value, quote, escaped) ==
    [args |-> arguments, value |-> value, quote |-> quote, escaped |-> escaped]
\* Values of escaped, named so that the provers take them for values like any other.
Yes == TRUE
No == FALSE
Quotes == {NoQuote, Single, Double}
Arguments == Seq(Seq(Characters) \ {<<>>})

Result(ok, arguments) == [ok |-> ok, args |-> arguments]

\* The arguments once the last one is complete, and what SplitCommandArgs returns.
Complete(a, v) == IF v = <<>> THEN a ELSE Append(a, v)
Final(a, v, q, e) ==
    IF e = Yes \/ q # NoQuote THEN Result(No, <<>>) ELSE Result(Yes, Complete(a, v))

\* Two states that differ in the arguments A, which the second has before its own.
Shifted(A, x, y) ==
    \E a \in Arguments, v \in Seq(Characters), q \in Quotes, e \in {Yes, No} :
        x = State(a, v, q, e) /\ y = State(A \o a, v, q, e)

\* What SplitCommandArgs makes of the state after the loop.
LEMMA SplitIs ==
    ASSUME NEW s
    PROVE  SplitCommandArgs(s) =
             LET end == Loop!Fold(s) IN
             IF end.escaped \/ end.quote # NoQuote THEN [ok |-> FALSE, args |-> <<>>]
             ELSE [ok |-> TRUE, args |-> Flush(end).args]
<1>1. FoldLeft(Read, Scanner, s) = Loop!Fold(s)
  BY DEF FoldLeft, MapThenFoldSet, Max, Loop!Fold, Loop!Greatest
<1> QED BY <1>1, Zenon DEF SplitCommandArgs

\* A scanner is its four fields.
LEMMA FourFields ==
    ASSUME NEW w, DOMAIN w = {"args", "value", "quote", "escaped"},
           w = [f \in DOMAIN w |-> w[f]]
    PROVE  w = State(w.args, w.value, w.quote, w.escaped)
BY DEF State

\* The end of an argument.
LEMMA FlushState ==
    ASSUME NEW a, NEW v, NEW q, NEW e
    PROVE  /\ Flush(State(a, v, q, e)) =
                IF v = <<>> THEN State(a, v, q, e) ELSE State(Append(a, v), <<>>, q, e)
           /\ Flush(State(a, v, q, e)).args = IF v = <<>> THEN a ELSE Append(a, v)
<1> DEFINE s == State(a, v, q, e)
           w == [s EXCEPT !.args = Append(a, v), !.value = <<>>]
<1>1. s.args = a /\ s.value = v  BY DEF State
<1>2. DOMAIN w = {"args", "value", "quote", "escaped"}  BY DEF State
<1>3. w = [f \in DOMAIN w |-> w[f]]  OBVIOUS
<1>4. w.args = Append(a, v)  BY DEF State
<1>5. w.value = <<>>  BY DEF State
<1>6. w.quote = q /\ w.escaped = e  BY DEF State
<1>7. Flush(s) = IF v = <<>> THEN s ELSE w  BY <1>1 DEF Flush
<1> HIDE DEF s, w
<1>8. w = State(Append(a, v), <<>>, q, e)  BY <1>2, <1>3, <1>4, <1>5, <1>6, FourFields
<1> QED BY <1>1, <1>4, <1>7, <1>8 DEF s

\* A character is written.
LEMMA WriteState ==
    ASSUME NEW a, NEW v, NEW q, NEW e, NEW c
    PROVE  Write(State(a, v, q, e), c) = State(a, Append(v, c), q, No)
<1> DEFINE s == State(a, v, q, e)
           w == [s EXCEPT !.value = Append(v, c), !.escaped = No]
<1>1. s.value = v  BY DEF State
<1>2. DOMAIN w = {"args", "value", "quote", "escaped"}  BY DEF State
<1>3. w = [f \in DOMAIN w |-> w[f]]  OBVIOUS
<1>4. w.value = Append(v, c)  BY DEF State
<1>5. w.args = a /\ w.quote = q /\ w.escaped = No  BY DEF State
<1>6. Write(s, c) = w  BY <1>1 DEF Write, No
<1> HIDE DEF s, w
<1>7. w = State(a, Append(v, c), q, No)  BY <1>2, <1>3, <1>4, <1>5, FourFields
<1> QED BY <1>6, <1>7 DEF s

\* A turn of the loop after a backslash.
LEMMA ReadAfterEscape ==
    ASSUME NEW a, NEW v, NEW q, NEW c
    PROVE  Read(State(a, v, q, Yes), c) = State(a, Append(v, c), q, No)
<1>1. State(a, v, q, Yes).escaped = Yes  BY DEF State
<1>2. Read(State(a, v, q, Yes), c) = Write(State(a, v, q, Yes), c)
  BY <1>1, Zenon DEF Read, Yes
<1> QED BY <1>2, WriteState

\* Any other turn of the loop.
LEMMA ReadState ==
    ASSUME NEW a, NEW v, NEW q, NEW c
    PROVE  Read(State(a, v, q, No), c) =
             IF c = Backslash /\ q # Single THEN State(a, v, q, Yes)
             ELSE IF q # NoQuote
             THEN IF c = q THEN State(a, v, NoQuote, No)
                  ELSE State(a, Append(v, c), q, No)
             ELSE IF c \in {Single, Double} THEN State(a, v, c, No)
             ELSE IF c = Space
             THEN IF v = <<>> THEN State(a, v, q, No)
                  ELSE State(Append(a, v), <<>>, q, No)
             ELSE State(a, Append(v, c), q, No)
<1> DEFINE s == State(a, v, q, No)
<1>1. s.quote = q /\ s.escaped = No  BY DEF State
<1>2. [s EXCEPT !.escaped = Yes] = State(a, v, q, Yes)  BY DEF State
<1>3. [s EXCEPT !.quote = NoQuote] = State(a, v, NoQuote, No)  BY DEF State
<1>4. [s EXCEPT !.quote = c] = State(a, v, c, No)  BY DEF State
<1>5. Write(s, c) = State(a, Append(v, c), q, No)  BY WriteState
<1>6. Flush(s) = IF v = <<>> THEN s ELSE State(Append(a, v), <<>>, q, No)
  BY FlushState
<1> HIDE DEF s
<1>7. Read(s, c) = IF c = Backslash /\ q # Single THEN [s EXCEPT !.escaped = Yes]
                   ELSE IF q # NoQuote
                   THEN IF c = q THEN [s EXCEPT !.quote = NoQuote] ELSE Write(s, c)
                   ELSE IF c \in {Single, Double} THEN [s EXCEPT !.quote = c]
                   ELSE IF c = Space THEN Flush(s)
                   ELSE Write(s, c)
  BY <1>1, Zenon DEF Read, Yes, No
<1> QED BY <1>2, <1>3, <1>4, <1>5, <1>6, <1>7 DEF s

\* The state before the loop.
LEMMA ScannerIs == Scanner = State(<<>>, <<>>, NoQuote, No) /\ Yes # No
BY Zenon DEF Scanner, State, Yes, No

\* A turn of the loop does not depend on the arguments that are complete, A here.
LEMMA ReadShifted ==
    ASSUME NEW A \in Arguments, NEW a \in Arguments, NEW v \in Seq(Characters),
           NEW q \in Quotes, NEW e \in {Yes, No}, NEW c \in Characters
    PROVE  Shifted(A, Read(State(a, v, q, e), c), Read(State(A \o a, v, q, e), c))
<1>1. Append(v, c) \in Seq(Characters) /\ <<>> \in Seq(Characters)  OBVIOUS
<1>2. v # <<>> => Append(a, v) \in Arguments /\ Append(A \o a, v) = A \o Append(a, v)
  <2> SUFFICES ASSUME v # <<>>
               PROVE  Append(a, v) \in Arguments /\ Append(A \o a, v) = A \o Append(a, v)
    OBVIOUS
  <2> DEFINE X == Seq(Characters) \ {<<>>}
  <2>1. A \in Seq(X) /\ a \in Seq(X) /\ v \in X  BY DEF Arguments
  <2>2. Arguments = Seq(X)  BY DEF Arguments
  <2>3. Append(a, v) \in Seq(X)
    <3> HIDE DEF X
    <3> QED BY <2>1
  <2>4. Append(A \o a, v) = A \o Append(a, v)
    <3> HIDE DEF X
    <3> QED BY <2>1, SMTT(60)
  <2> QED BY <2>2, <2>3, <2>4
<1>3. NoQuote \in Quotes /\ (c \in {Single, Double} => c \in Quotes)  BY Zenon DEF Quotes
<1>4. CASE e = Yes
  <2>1. /\ Read(State(a, v, q, e), c) = State(a, Append(v, c), q, No)
        /\ Read(State(A \o a, v, q, e), c) = State(A \o a, Append(v, c), q, No)
    BY <1>4, ReadAfterEscape
  <2> QED BY <1>1, <2>1, Zenon DEF Shifted
<1>5. CASE e = No
  <2> DEFINE r(x) == Read(State(x, v, q, e), c)
  <2>1. \/ \A x : r(x) = State(x, Append(v, c), q, No)
        \/ \A x : r(x) = State(x, v, q, Yes)
        \/ \A x : r(x) = State(x, v, NoQuote, No)
        \/ c \in {Single, Double} /\ \A x : r(x) = State(x, v, c, No)
        \/ \A x : r(x) = State(x, v, q, No)
        \/ v # <<>> /\ \A x : r(x) = State(Append(x, v), <<>>, q, No)
    BY <1>5, ReadState
  <2> QED BY <1>1, <1>2, <1>3, <2>1, Zenon DEF Shifted
<1> QED BY <1>4, <1>5

\* Where an argument is complete and nothing is open, the rest of the text is read
\* as if it stood alone; for i = 0, the state after any text.
LEMMA LoopFrom ==
    ASSUME NEW s \in Seq(Characters), NEW i \in 0 .. Len(s), NEW A \in Arguments,
           Loop!Fold(SubSeq(s, 1, i)) = State(A, <<>>, NoQuote, No)
    PROVE  Shifted(A, Loop!Fold(SubSeq(s, i + 1, Len(s))), Loop!Fold(s))
<1> DEFINE t == SubSeq(s, i + 1, Len(s))
           n == Len(s) - i
           S == {k \in 0 .. n :
                   Shifted(A, Loop!Fold(SubSeq(t, 1, k)), Loop!Fold(SubSeq(s, 1, i + k)))}
<1>1. n \in Nat /\ t \in Seq(Characters) /\ Len(t) = n
      /\ \A k \in 1 .. n : t[k] = s[i + k]
  OBVIOUS
<1>2. SubSeq(t, 1, 0) = <<>> /\ SubSeq(t, 1, n) = t
  <2> HIDE DEF t, n
  <2> QED BY <1>1
<1>3. SubSeq(s, 1, i + n) = s /\ i + 0 = i  OBVIOUS
<1> HIDE DEF t, n
<1>4. Shifted(A, Loop!Fold(SubSeq(t, 1, 0)), Loop!Fold(SubSeq(s, 1, i + 0)))
  <2>1. <<>> \in Arguments /\ <<>> \in Seq(Characters) /\ NoQuote \in Quotes
        /\ A \o <<>> = A
    BY DEF Arguments, Quotes
  <2>2. Loop!Fold(SubSeq(t, 1, 0)) = State(<<>>, <<>>, NoQuote, No)
    BY <1>2, Loop!FoldEmpty, ScannerIs, Zenon
  <2>3. Loop!Fold(SubSeq(s, 1, i + 0)) = State(A \o <<>>, <<>>, NoQuote, No)
    BY <1>3, <2>1
  <2> QED BY <2>1, <2>2, <2>3, Zenon DEF Shifted
<1>5. ASSUME NEW k \in 0 .. n, k < n,
             Shifted(A, Loop!Fold(SubSeq(t, 1, k)), Loop!Fold(SubSeq(s, 1, i + k)))
      PROVE  Shifted(A, Loop!Fold(SubSeq(t, 1, k + 1)), Loop!Fold(SubSeq(s, 1, i + (k + 1))))
  <2> DEFINE c == t[k + 1]
  <2>1. k + 1 \in 1 .. Len(t) /\ k + 1 - 1 = k  BY <1>1, <1>5
  <2>2. i + (k + 1) \in 1 .. Len(s) /\ i + (k + 1) - 1 = i + k  BY <1>1, <1>5 DEF n
  <2>3. c \in Characters /\ s[i + (k + 1)] = c  BY <1>1, <2>1
  <2> HIDE DEF c
  <2>4. Loop!Fold(SubSeq(t, 1, k + 1)) = Read(Loop!Fold(SubSeq(t, 1, k)), c)
    <3>1. Loop!Fold(SubSeq(t, 1, k + 1)) = Read(Loop!Fold(SubSeq(t, 1, k + 1 - 1)), t[k + 1])
      <4>1. t \in Seq(Characters) /\ k + 1 \in 1 .. Len(t)  BY <1>1, <2>1
      <4> QED BY <4>1, Loop!FoldPrefix
    <3> QED BY <2>1, <3>1 DEF c
  <2>5. Loop!Fold(SubSeq(s, 1, i + (k + 1))) = Read(Loop!Fold(SubSeq(s, 1, i + k)), c)
    <3>1. Loop!Fold(SubSeq(s, 1, i + (k + 1)))
            = Read(Loop!Fold(SubSeq(s, 1, i + (k + 1) - 1)), s[i + (k + 1)])
      BY <2>2, Loop!FoldPrefix
    <3> QED BY <2>2, <2>3, <3>1
  <2>6. PICK a \in Arguments, v \in Seq(Characters), q \in Quotes, e \in {Yes, No} :
          /\ Loop!Fold(SubSeq(t, 1, k)) = State(a, v, q, e)
          /\ Loop!Fold(SubSeq(s, 1, i + k)) = State(A \o a, v, q, e)
    BY <1>5, Zenon DEF Shifted
  <2>7. Shifted(A, Read(State(a, v, q, e), c), Read(State(A \o a, v, q, e), c))
    BY <2>3, ReadShifted
  <2> QED BY <2>4, <2>5, <2>6, <2>7, Zenon
<1>6. 0 \in S  BY <1>1, <1>4
<1>7. ASSUME NEW k \in 0 .. n, k < n, k \in S PROVE k + 1 \in S
  <2>1. k + 1 \in 0 .. n  BY <1>1, <1>7
  <2> QED BY <1>5, <1>7, <2>1, Zenon
<1>8. \A k \in 0 .. n : k \in S
  <2> HIDE DEF S
  <2> QED BY <1>1, <1>6, <1>7, Loop!Induct
<1>9. Shifted(A, Loop!Fold(SubSeq(t, 1, n)), Loop!Fold(SubSeq(s, 1, i + n)))
  <2>1. n \in 0 .. n  BY <1>1
  <2> QED BY <1>8, <2>1, Zenon
<1> QED BY <1>2, <1>3, <1>9 DEF t

\* A complete argument is one that is not empty, and joins those before it.
LEMMA CompleteArguments ==
    ASSUME NEW A \in Arguments, NEW a \in Arguments, NEW v \in Seq(Characters)
    PROVE  Complete(a, v) \in Arguments /\ Complete(A \o a, v) = A \o Complete(a, v)
<1> DEFINE X == Seq(Characters) \ {<<>>}
<1>1. Arguments = Seq(X)  BY DEF Arguments
<1>2. CASE v = <<>>  BY <1>2 DEF Complete
<1>3. CASE v # <<>>
  <2>1. A \in Seq(X) /\ a \in Seq(X) /\ v \in X  BY <1>1, <1>3
  <2> HIDE DEF X
  <2>2. Append(a, v) \in Seq(X) /\ Append(A \o a, v) = A \o Append(a, v)  BY <2>1
  <2> QED BY <1>1, <1>3, <2>2, Zenon DEF Complete
<1> QED BY <1>2, <1>3

\* The result, from the state after the loop.
LEMMA SplitState ==
    ASSUME NEW s, NEW a, NEW v, NEW q, NEW e \in {Yes, No}, Loop!Fold(s) = State(a, v, q, e)
    PROVE  SplitCommandArgs(s) = Final(a, v, q, e)
<1>1. State(a, v, q, e).escaped = e /\ State(a, v, q, e).quote = q  BY DEF State
<1>2. e <=> e = Yes  BY Zenon DEF Yes, No
<1>3. Flush(State(a, v, q, e)).args = Complete(a, v)
  BY FlushState DEF Complete
<1>4. SplitCommandArgs(s) = IF e \/ q # NoQuote THEN Result(No, <<>>)
                            ELSE Result(Yes, Flush(State(a, v, q, e)).args)
  BY <1>1, SplitIs, Zenon DEF Result, Yes, No
<1> QED BY <1>2, <1>3, <1>4, Zenon DEF Final

\* The state after any text.
LEMMA LoopState ==
    ASSUME NEW s \in Seq(Characters)
    PROVE  \E a \in Arguments, v \in Seq(Characters), q \in Quotes, e \in {Yes, No} :
             Loop!Fold(s) = State(a, v, q, e)
<1>1. 0 \in 0 .. Len(s) /\ SubSeq(s, 1, 0) = <<>> /\ SubSeq(s, 0 + 1, Len(s)) = s  OBVIOUS
<1>2. <<>> \in Arguments  BY DEF Arguments
<1>3. Loop!Fold(SubSeq(s, 1, 0)) = State(<<>>, <<>>, NoQuote, No)
  BY <1>1, Loop!FoldEmpty, ScannerIs, Zenon
<1>4. Shifted(<<>>, Loop!Fold(SubSeq(s, 0 + 1, Len(s))), Loop!Fold(s))
  BY <1>1, <1>2, <1>3, LoopFrom
<1> QED BY <1>1, <1>4, Zenon DEF Shifted

\* The result of a text and that of the rest of it after a space, where nothing is
\* open before the space.
LEMMA SplitAtSpace ==
    ASSUME NEW s \in Seq(Characters), NEW i \in 1 .. Len(s), s[i] = Space,
           SplitCommandArgs(SubSeq(s, 1, i - 1)).ok
    PROVE  LET before == SplitCommandArgs(SubSeq(s, 1, i - 1))
               after == SplitCommandArgs(SubSeq(s, i + 1, Len(s)))
           IN SplitCommandArgs(s) =
                IF after.ok THEN [after EXCEPT !.args = before.args \o @] ELSE after
<1> DEFINE b == SubSeq(s, 1, i - 1)
           r == SubSeq(s, i + 1, Len(s))
<1>1. b \in Seq(Characters) /\ r \in Seq(Characters)  OBVIOUS
<1> HIDE DEF b, r
<1>2. PICK a \in Arguments, v \in Seq(Characters), q \in Quotes, e \in {Yes, No} :
        Loop!Fold(b) = State(a, v, q, e)
  BY <1>1, LoopState
<1> DEFINE A == Complete(a, v)
<1>3. e = No /\ q = NoQuote /\ SplitCommandArgs(b).args = A
  <2>1. SplitCommandArgs(b) = Final(a, v, q, e)  BY <1>2, SplitState
  <2>2. SplitCommandArgs(b).ok  BY DEF b
  <2>3. Result(No, <<>>).ok = No /\ Result(Yes, A).args = A  BY DEF Result
  <2> HIDE DEF A
  <2>4. ~(e = Yes \/ q # NoQuote)  BY <2>1, <2>2, <2>3, Zenon DEF Final, No
  <2> QED BY <2>1, <2>3, <2>4, Zenon DEF Final, A
<1>4. A \in Arguments  BY CompleteArguments
<1>5. Loop!Fold(SubSeq(s, 1, i)) = State(A, <<>>, NoQuote, No)
  <2>1. Loop!Fold(SubSeq(s, 1, i)) = Read(State(a, v, NoQuote, No), Space)
    <3>1. Loop!Fold(SubSeq(s, 1, i)) = Read(Loop!Fold(SubSeq(s, 1, i - 1)), s[i])
      BY Loop!FoldPrefix
    <3> QED BY <1>2, <1>3, <3>1 DEF b
  <2>2. Space # Backslash /\ Space \notin {Single, Double}
    BY DEF Space, Backslash, Single, Double
  <2>3. Read(State(a, v, NoQuote, No), Space) =
          IF v = <<>> THEN State(a, v, NoQuote, No) ELSE State(Append(a, v), <<>>, NoQuote, No)
    BY <2>2, ReadState
  <2> QED BY <2>1, <2>3 DEF Complete
<1> HIDE DEF A
<1>6. Shifted(A, Loop!Fold(r), Loop!Fold(s))
  <2>1. i \in 0 .. Len(s)  OBVIOUS
  <2> QED BY <1>4, <1>5, <2>1, LoopFrom DEF r
<1>7. PICK a2 \in Arguments, v2 \in Seq(Characters), q2 \in Quotes, e2 \in {Yes, No} :
        Loop!Fold(r) = State(a2, v2, q2, e2) /\ Loop!Fold(s) = State(A \o a2, v2, q2, e2)
  BY <1>6 DEF Shifted
<1> DEFINE B == Complete(a2, v2)
           after == SplitCommandArgs(r)
<1>8. Complete(A \o a2, v2) = A \o B
  <2>1. A \in Arguments /\ a2 \in Arguments /\ v2 \in Seq(Characters)  BY <1>4
  <2> QED BY <2>1, CompleteArguments, Zenon
<1>9. after = Final(a2, v2, q2, e2)  BY <1>7, SplitState
<1>10. SplitCommandArgs(s) = Final(A \o a2, v2, q2, e2)
  <2>1. Loop!Fold(s) = State(A \o a2, v2, q2, e2)  BY <1>7
  <2> QED BY <2>1, SplitState
<1> HIDE DEF B, after
<1>11. SplitCommandArgs(s) = IF after.ok THEN [after EXCEPT !.args = A \o @] ELSE after
  <2>1. CASE e2 = Yes \/ q2 # NoQuote
    <3>1. after = Result(No, <<>>) /\ SplitCommandArgs(s) = after
      BY <1>9, <1>10, <2>1, Zenon DEF Final
    <3>2. after.ok = No  BY <3>1 DEF Result
    <3> QED BY <3>1, <3>2, Zenon DEF No
  <2>2. CASE ~(e2 = Yes \/ q2 # NoQuote)
    <3>1. after = Result(Yes, B) /\ SplitCommandArgs(s) = Result(Yes, A \o B)
      BY <1>8, <1>9, <1>10, <2>2, Zenon DEF Final, B
    <3>2. after.ok = Yes /\ after.args = B  BY <3>1 DEF Result
    <3> DEFINE C == A \o B
    <3>3. [after EXCEPT !.args = A \o @] = [Result(Yes, B) EXCEPT !.args = C]
      BY <3>1, <3>2, Zenon
    <3> HIDE DEF C
    <3>4. [Result(Yes, B) EXCEPT !.args = C] = Result(Yes, C)  BY DEF Result
    <3>5. [after EXCEPT !.args = A \o @] = Result(Yes, C)  BY <3>3, <3>4, Zenon
    <3> QED BY <3>1, <3>2, <3>5, Zenon DEF Yes, C
  <2> QED BY <2>1, <2>2
<1> QED BY <1>3, <1>11 DEF b, r, after

\* Whatever the text, its unquoted spaces separate.
THEOREM SpacesSeparate == Spec => []SpaceSeparates
<1>1. IInv => SpaceSeparates
  <2> SUFFICES ASSUME IInv, NEW i \in DOMAIN input, input[i] = Space,
                      SplitCommandArgs(SubSeq(input, 1, i - 1)).ok
               PROVE  LET before == SplitCommandArgs(SubSeq(input, 1, i - 1))
                          after == SplitCommandArgs(SubSeq(input, i + 1, Len(input)))
                      IN SplitCommandArgs(input) =
                           IF after.ok THEN [after EXCEPT !.args = before.args \o @]
                           ELSE after
    BY Zenon DEF SpaceSeparates
  <2>1. input \in Seq(Characters)  BY DEF IInv, TypeOK
  <2>2. i \in 1 .. Len(input)  BY <2>1
  <2> QED BY <2>1, <2>2, SplitAtSpace
<1> QED BY <1>1, Invariant, PTL

\* Quoting, character by character.
EscapeAll(t, c) == IF c \in Characters THEN t \o <<Backslash, c>> ELSE Append(t, c)
EscapeSome(t, c) == IF c \in {Double, Backslash} THEN t \o <<Backslash, c>> ELSE Append(t, c)
All == INSTANCE FoldFacts WITH Op <- EscapeAll, Base <- <<>>
Some == INSTANCE FoldFacts WITH Op <- EscapeSome, Base <- <<>>

\* c stands for itself within the quotes q.
Plain(c, q) == q # NoQuote /\ c # q /\ (c # Backslash \/ q = Single)

\* F[k] quotes the first k characters of arg for the inside of the quotes q.
Quoting(F, arg, q) ==
    /\ F[0] = <<>>
    /\ \A k \in 1 .. Len(arg) :
        \/ F[k] = F[k - 1] \o <<Backslash, arg[k]>> /\ q # Single
        \/ F[k] = Append(F[k - 1], arg[k]) /\ Plain(arg[k], q)

\* A character that stands for itself, and an escaped one, are read as themselves.
LEMMA ReadPlain ==
    ASSUME NEW s \in Seq(Characters), NEW v, NEW q, NEW c \in Characters,
           Loop!Fold(s) = State(<<>>, v, q, No)
    PROVE  /\ Plain(c, q) => Loop!Fold(Append(s, c)) = State(<<>>, Append(v, c), q, No)
           /\ q # Single => Loop!Fold(s \o <<Backslash, c>>) = State(<<>>, Append(v, c), q, No)
           /\ s \o <<Backslash, c>> \in Seq(Characters) /\ Append(s, c) \in Seq(Characters)
<1> DEFINE s2 == Append(s, Backslash)
<1>1. Backslash \in Characters  BY DEF Characters
<1>2. s2 \in Seq(Characters) /\ Append(s, c) \in Seq(Characters)  BY <1>1
<1>3. s \o <<Backslash, c>> = Append(s2, c)  BY <1>1
<1> HIDE DEF s2
<1>4. Append(s2, c) \in Seq(Characters)  BY <1>2
<1>5. ASSUME Plain(c, q) PROVE Loop!Fold(Append(s, c)) = State(<<>>, Append(v, c), q, No)
  <2>1. Loop!Fold(Append(s, c)) = Read(State(<<>>, v, q, No), c)  BY Loop!FoldAppend
  <2> QED BY <1>5, <2>1, ReadState DEF Plain
<1>6. ASSUME q # Single
      PROVE  Loop!Fold(s \o <<Backslash, c>>) = State(<<>>, Append(v, c), q, No)
  <2>1. Loop!Fold(s2) = Read(State(<<>>, v, q, No), Backslash)
    BY <1>1, Loop!FoldAppend DEF s2
  <2>2. Loop!Fold(s2) = State(<<>>, v, q, Yes)  BY <1>6, <2>1, ReadState
  <2>3. Loop!Fold(Append(s2, c)) = Read(State(<<>>, v, q, Yes), c)
    BY <1>2, <2>2, Loop!FoldAppend
  <2> QED BY <1>3, <2>3, ReadAfterEscape
<1> QED BY <1>2, <1>3, <1>4, <1>5, <1>6

\* After the quote p, an argument of which every character is escaped or stands for
\* itself is read as itself.
LEMMA QuotedState ==
    ASSUME NEW arg \in Seq(Characters), NEW p \in Seq(Characters), NEW q, NEW F,
           Loop!Fold(p) = State(<<>>, <<>>, q, No), Quoting(F, arg, q)
    PROVE  /\ F[Len(arg)] \in Seq(Characters)
           /\ Loop!Fold(p \o F[Len(arg)]) = State(<<>>, arg, q, No)
<1> DEFINE n == Len(arg)
           S == {k \in 0 .. n :
                   /\ F[k] \in Seq(Characters)
                   /\ Loop!Fold(p \o F[k]) = State(<<>>, SubSeq(arg, 1, k), q, No)}
<1>1. n \in Nat /\ SubSeq(arg, 1, 0) = <<>> /\ SubSeq(arg, 1, n) = arg  OBVIOUS
<1>2. 0 \in S
  <2>1. <<>> \in Seq(Characters) /\ p \o <<>> = p /\ 0 \in 0 .. n  OBVIOUS
  <2>2. Loop!Fold(p \o F[0]) = State(<<>>, SubSeq(arg, 1, 0), q, No)
    BY <1>1, <2>1, Zenon DEF Quoting
  <2> QED BY <2>1, <2>2, Zenon DEF Quoting
<1>3. ASSUME NEW k \in 0 .. n, k < n, k \in S PROVE k + 1 \in S
  <2> DEFINE c == arg[k + 1]
             f == F[k]
             v == SubSeq(arg, 1, k)
             g == p \o f
  <2>1. k + 1 \in 1 .. n /\ k + 1 \in 0 .. n /\ k + 1 - 1 = k  BY <1>1, <1>3
  <2>2. c \in Characters /\ Append(v, c) = SubSeq(arg, 1, k + 1)  BY <2>1
  <2>3. \/ F[k + 1] = f \o <<Backslash, c>> /\ q # Single
        \/ F[k + 1] = Append(f, c) /\ Plain(c, q)
    <3>1. \/ F[k + 1] = F[k + 1 - 1] \o <<Backslash, c>> /\ q # Single
          \/ F[k + 1] = Append(F[k + 1 - 1], c) /\ Plain(c, q)
      BY <2>1 DEF Quoting
    <3> QED BY <2>1, <3>1
  <2>4. f \in Seq(Characters) /\ Loop!Fold(g) = State(<<>>, v, q, No)  BY <1>3
  <2> HIDE DEF c, f, v
  <2>5. Backslash \in Characters  BY DEF Characters
  <2>6. /\ g \in Seq(Characters)
        /\ f \o <<Backslash, c>> \in Seq(Characters) /\ Append(f, c) \in Seq(Characters)
        /\ p \o (f \o <<Backslash, c>>) = g \o <<Backslash, c>>
        /\ p \o Append(f, c) = Append(g, c)
    <3>1. g \in Seq(Characters)  BY <2>4
    <3>2. f \o <<Backslash, c>> \in Seq(Characters) /\ Append(f, c) \in Seq(Characters)
      BY <2>2, <2>4, <2>5
    <3>3. p \o Append(f, c) = Append(g, c)  BY <2>2, <2>4
    <3>4. p \o (f \o <<Backslash, c>>) = g \o <<Backslash, c>>
      <4> DEFINE h == <<Backslash, c>>
      <4>1. h \in Seq(Characters)  BY <2>2, <2>5
      <4> HIDE DEF h
      <4>2. p \o (f \o h) = g \o h  BY <2>4, <4>1
      <4> QED BY <4>2 DEF h
    <3> QED BY <3>1, <3>2, <3>3, <3>4
  <2> HIDE DEF g
  <2>7. /\ Plain(c, q) => Loop!Fold(Append(g, c)) = State(<<>>, Append(v, c), q, No)
        /\ q # Single => Loop!Fold(g \o <<Backslash, c>>) = State(<<>>, Append(v, c), q, No)
    <3>1. c \in Characters /\ g \in Seq(Characters) /\ Loop!Fold(g) = State(<<>>, v, q, No)
      BY <2>2, <2>4, <2>6
    <3> QED BY <3>1, ReadPlain
  <2>8. /\ F[k + 1] \in Seq(Characters)
        /\ Loop!Fold(p \o F[k + 1]) = State(<<>>, SubSeq(arg, 1, k + 1), q, No)
    BY <2>2, <2>3, <2>6, <2>7
  <2> QED BY <2>1, <2>8, Zenon
<1>4. \A k \in 0 .. n : k \in S
  <2> HIDE DEF S, n
  <2> QED BY <1>1, <1>2, <1>3, Loop!Induct
<1>5. n \in S
  <2> HIDE DEF S, n
  <2> QED BY <1>1, <1>4
<1> QED BY <1>1, <1>5

\* A text that leaves an argument unquoted, or is followed by the quote that closes
\* it, splits into that argument.
LEMMA ClosedQuote ==
    ASSUME NEW s \in Seq(Characters), NEW arg \in Seq(Characters) \ {<<>>}, NEW q \in Quotes,
           Loop!Fold(s) = State(<<>>, arg, q, No)
    PROVE  LET t == IF q = NoQuote THEN s ELSE s \o <<q>> IN
           SplitCommandArgs(t) = [ok |-> TRUE, args |-> <<arg>>]
<1> DEFINE t == IF q = NoQuote THEN s ELSE s \o <<q>>
<1>1. Loop!Fold(t) = State(<<>>, arg, NoQuote, No)
  <2>1. CASE q = NoQuote  BY <2>1
  <2>2. CASE q # NoQuote
    <3>1. q \in {Single, Double}  BY <2>2 DEF Quotes
    <3>2. q \in Characters /\ q # Backslash
      BY <3>1 DEF Characters, Single, Double, Backslash
    <3>3. t = Append(s, q)  BY <2>2, <3>2
    <3>4. Loop!Fold(Append(s, q)) = Read(State(<<>>, arg, q, No), q)
      BY <3>2, Loop!FoldAppend
    <3> HIDE DEF t
    <3> QED BY <2>2, <3>2, <3>3, <3>4, ReadState
  <2> QED BY <2>1, <2>2
<1> HIDE DEF t
<1>2. SplitCommandArgs(t) = Final(<<>>, arg, NoQuote, No)  BY <1>1, SplitState
<1>3. Complete(<<>>, arg) = <<arg>>  BY DEF Complete
<1>4. Final(<<>>, arg, NoQuote, No) = Result(Yes, <<arg>>)
  BY <1>3, ScannerIs, Zenon DEF Final
<1> QED BY <1>2, <1>4, Zenon DEF t, Result, Yes

\* Each of the usual quotings of an argument splits into that argument, whatever its
\* length and characters (cmd_args.go:27-47).
THEOREM QuotingReadsBack ==
    ASSUME NEW arg \in Seq(Characters) \ {<<>>}, NEW quoted \in Quotings(arg)
    PROVE  SplitCommandArgs(quoted) = [ok |-> TRUE, args |-> <<arg>>]
<1> DEFINE n == Len(arg)
<1>1. arg \in Seq(Characters) /\ n \in Nat /\ SubSeq(arg, 1, 0) = <<>> /\ SubSeq(arg, 1, n) = arg
      /\ \A k \in 1 .. n : arg[k] \in Characters
  OBVIOUS
<1>2. ASSUME NEW q \in {Single, Double}
      PROVE  <<q>> \in Seq(Characters) /\ Loop!Fold(<<q>>) = State(<<>>, <<>>, q, No)
  <2>1. q \in Characters /\ q # Backslash
    BY DEF Characters, Single, Double, Backslash
  <2>2. <<>> \in Seq(Characters) /\ <<q>> = Append(<<>>, q) /\ <<q>> \in Seq(Characters)
    BY <2>1
  <2>3. Loop!Fold(Append(<<>>, q)) = Read(Loop!Fold(<<>>), q)  BY <2>1, <2>2, Loop!FoldAppend
  <2>4. Loop!Fold(<<q>>) = Read(State(<<>>, <<>>, NoQuote, No), q)
    BY <2>2, <2>3, Loop!FoldEmpty, ScannerIs, Zenon
  <2> QED BY <2>1, <2>2, <2>4, ReadState
<1>3. CASE quoted = Escaped(arg, Characters)
  <2> DEFINE F == [k \in 0 .. n |-> All!Fold(SubSeq(arg, 1, k))]
  <2>1. Escaped(arg, Characters) = All!Fold(arg)
    BY DEF Escaped, FoldLeft, MapThenFoldSet, Max, All!Fold, All!Greatest, EscapeAll
  <2>2. F[0] = <<>> /\ F[n] = All!Fold(arg)
    <3>1. 0 \in 0 .. n /\ n \in 0 .. n  BY <1>1
    <3>2. F[0] = All!Fold(SubSeq(arg, 1, 0)) /\ F[n] = All!Fold(SubSeq(arg, 1, n))
      BY <3>1
    <3> QED BY <1>1, <3>2, All!FoldEmpty, Zenon
  <2>3. ASSUME NEW k \in 1 .. n
        PROVE  F[k] = F[k - 1] \o <<Backslash, arg[k]>>
    <3>1. All!Fold(SubSeq(arg, 1, k)) = EscapeAll(All!Fold(SubSeq(arg, 1, k - 1)), arg[k])
      BY <1>1, All!FoldPrefix
    <3>2. k \in 0 .. n /\ k - 1 \in 0 .. n  BY <1>1
    <3>3. F[k] = EscapeAll(F[k - 1], arg[k])  BY <3>1, <3>2
    <3> HIDE DEF F
    <3> QED BY <1>1, <3>3, Zenon DEF EscapeAll
  <2> HIDE DEF F
  <2>4. NoQuote # Single /\ <<>> \in Seq(Characters)  BY DEF NoQuote, Single
  <2>5. Loop!Fold(<<>>) = State(<<>>, <<>>, NoQuote, No)  BY Loop!FoldEmpty, ScannerIs, Zenon
  <2>6. F[n] \in Seq(Characters) /\ Loop!Fold(<<>> \o F[n]) = State(<<>>, arg, NoQuote, No)
    <3>1. Quoting(F, arg, NoQuote)  BY <2>2, <2>3, <2>4 DEF Quoting
    <3> QED BY <1>1, <2>4, <2>5, <3>1, QuotedState, ZenonT(60)
  <2>7. <<>> \o F[n] = F[n]  BY <2>6
  <2>8. NoQuote \in Quotes  BY DEF Quotes
  <2> QED BY <1>3, <2>1, <2>2, <2>6, <2>7, <2>8, ClosedQuote
<1>4. CASE quoted = <<Double>> \o Escaped(arg, {Double, Backslash}) \o <<Double>>
  <2> DEFINE F == [k \in 0 .. n |-> Some!Fold(SubSeq(arg, 1, k))]
  <2>1. Escaped(arg, {Double, Backslash}) = Some!Fold(arg)
    BY DEF Escaped, FoldLeft, MapThenFoldSet, Max, Some!Fold, Some!Greatest, EscapeSome
  <2>2. F[0] = <<>> /\ F[n] = Some!Fold(arg)
    <3>1. 0 \in 0 .. n /\ n \in 0 .. n  BY <1>1
    <3>2. F[0] = Some!Fold(SubSeq(arg, 1, 0)) /\ F[n] = Some!Fold(SubSeq(arg, 1, n))
      BY <3>1
    <3> QED BY <1>1, <3>2, Some!FoldEmpty, Zenon
  <2>3. Double # Single /\ Double # NoQuote /\ Double \in {Single, Double} /\ Double \in Quotes
    BY DEF Double, Single, NoQuote, Quotes
  <2>4. ASSUME NEW k \in 1 .. n
        PROVE  \/ F[k] = F[k - 1] \o <<Backslash, arg[k]>>
               \/ F[k] = Append(F[k - 1], arg[k]) /\ Plain(arg[k], Double)
    <3>1. Some!Fold(SubSeq(arg, 1, k)) = EscapeSome(Some!Fold(SubSeq(arg, 1, k - 1)), arg[k])
      BY <1>1, Some!FoldPrefix
    <3>2. k \in 0 .. n /\ k - 1 \in 0 .. n  BY <1>1
    <3>3. F[k] = EscapeSome(F[k - 1], arg[k])  BY <3>1, <3>2
    <3> HIDE DEF F
    <3> QED BY <2>3, <3>3, Zenon DEF EscapeSome, Plain
  <2> HIDE DEF F
  <2>5. /\ F[n] \in Seq(Characters)
        /\ Loop!Fold(<<Double>> \o F[n]) = State(<<>>, arg, Double, No)
    <3>1. Quoting(F, arg, Double)  BY <2>2, <2>3, <2>4 DEF Quoting
    <3>2. /\ <<Double>> \in Seq(Characters)
          /\ Loop!Fold(<<Double>>) = State(<<>>, <<>>, Double, No)
      BY <1>2, <2>3
    <3> QED BY <1>1, <3>1, <3>2, QuotedState, ZenonT(60)
  <2> DEFINE s == <<Double>> \o F[n]
  <2>6. s \in Seq(Characters)  BY <1>2, <2>3, <2>5
  <2>7. quoted = s \o <<Double>>  BY <1>4, <2>1, <2>2
  <2> HIDE DEF s
  <2> QED BY <2>3, <2>5, <2>6, <2>7, ClosedQuote DEF s
<1>5. CASE /\ quoted = <<Single>> \o arg \o <<Single>>
           /\ ~\E i \in DOMAIN arg : arg[i] = Single
  <2> DEFINE F == [k \in 0 .. n |-> SubSeq(arg, 1, k)]
  <2>1. F[0] = <<>> /\ F[n] = arg  BY <1>1
  <2>2. Single # NoQuote /\ Single \in {Single, Double} /\ Single \in Quotes
    BY DEF Double, Single, NoQuote, Quotes
  <2>3. ASSUME NEW k \in 1 .. n
        PROVE  F[k] = Append(F[k - 1], arg[k]) /\ Plain(arg[k], Single)
    <3>1. F[k] = Append(F[k - 1], arg[k])  BY <1>1
    <3>2. k \in DOMAIN arg  BY <1>1
    <3> QED BY <1>5, <2>2, <3>1, <3>2 DEF Plain
  <2> HIDE DEF F
  <2>4. /\ F[n] \in Seq(Characters)
        /\ Loop!Fold(<<Single>> \o F[n]) = State(<<>>, arg, Single, No)
    <3>1. Quoting(F, arg, Single)  BY <2>1, <2>3 DEF Quoting
    <3>2. /\ <<Single>> \in Seq(Characters)
          /\ Loop!Fold(<<Single>>) = State(<<>>, <<>>, Single, No)
      BY <1>2, <2>2
    <3> QED BY <1>1, <3>1, <3>2, QuotedState, ZenonT(60)
  <2> DEFINE s == <<Single>> \o F[n]
  <2>5. s \in Seq(Characters)  BY <1>2, <2>2, <2>4
  <2>6. quoted = s \o <<Single>>  BY <1>5, <2>1
  <2> HIDE DEF s
  <2> QED BY <2>2, <2>4, <2>5, <2>6, ClosedQuote DEF s
<1> QED BY <1>3, <1>4, <1>5 DEF Quotings

\* Every argument that a text stands for can be quoted.
THEOREM QuotedReadBack == Spec => []QuotedArgsReadBack
<1>1. IInv => QuotedArgsReadBack
  <2> SUFFICES ASSUME IInv PROVE QuotedArgsReadBack  OBVIOUS
  <2> DEFINE split == SplitCommandArgs(input).args
  <2>1. input \in Seq(Characters)  BY DEF IInv, TypeOK
  <2>2. PICK a \in Arguments, v \in Seq(Characters), q \in Quotes, e \in {Yes, No} :
          Loop!Fold(input) = State(a, v, q, e)
    BY <2>1, LoopState
  <2>3. SplitCommandArgs(input) = Final(a, v, q, e)  BY <2>2, SplitState
  <2>4. Result(No, <<>>).args = <<>> /\ Result(Yes, Complete(a, v)).args = Complete(a, v)
    BY DEF Result
  <2>5. <<>> \in Arguments /\ Complete(a, v) \in Arguments
    <3>1. <<>> \in Arguments  BY DEF Arguments
    <3> QED BY <3>1, CompleteArguments
  <2>6. split \in Arguments  BY <2>3, <2>4, <2>5, Zenon DEF Final
  <2> HIDE DEF split
  <2>7. \A i \in DOMAIN split : split[i] \in Seq(Characters) \ {<<>>}
    <3> DEFINE X == Seq(Characters) \ {<<>>}
    <3>1. split \in Seq(X)  BY <2>6 DEF Arguments
    <3> HIDE DEF X
    <3>2. \A i \in DOMAIN split : split[i] \in X  BY <3>1
    <3> QED BY <3>2 DEF X
  <2>8. \A i \in DOMAIN split : \A quoted \in Quotings(split[i]) :
          SplitCommandArgs(quoted) = [ok |-> TRUE, args |-> <<split[i]>>]
    BY <2>7, QuotingReadsBack, Zenon
  <2> QED BY <2>8, Zenon DEF QuotedArgsReadBack, split
<1> QED BY <1>1, Invariant, PTL
=============================================================================
