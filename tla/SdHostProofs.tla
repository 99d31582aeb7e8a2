---------------------------- MODULE SdHostProofs ----------------------------
(***************************************************************************)
(* On a card that answers in time, the lock-free hand-over of interrupt    *)
(* bits from sdhc_intr to sdhc_exec_command never mixes up commands: for   *)
(* any number of commands, DMA boundaries and reported errors.             *)
(* And udelay, which every software timeout of the driver counts, is       *)
(* punctual on a timer that wraps.                                         *)
(***************************************************************************)
EXTENDS SdHost, Udelay, TLAPS

(* The main thread is inside sdhc_wait_intr or just behind it.             *)
Working == {"wait", "load", "store", "after"}

(* The controller works for nobody and no interrupt is left to be taken.   *)
Quiet == phase \notin {"cmd", "data"} /\ nintr = {} /\ eintr = {} /\ hpc = "out"

(* The bits under way from the controller to the main thread.              *)
Flight == nintr \cup hstatus \cup intr_status

(* Between two commands there is nothing to come.                          *)
BetweenInv == pc \in {"idle", "start"} => Quiet /\ (pc = "start" => intr_status = {})

(* The handler's snapshot: its bits are acknowledged once, and an error    *)
(* found in it has stopped the controller, so the error service clears     *)
(* nothing that it has not seen.                                           *)
HandlerInv ==
    /\ "CARD" \notin Flight /\ "BUF" \notin Flight
    /\ eintr # {} => phase = "dead"
    /\ hpc = "out" => hstatus = {}
    /\ hpc = "ack" => hstatus \subseteq nintr \cup {"ERR"}
    /\ hpc \in {"error", "wake"} => nintr \cap hstatus = {}
    /\ "ERR" \in hstatus => /\ "TC" \notin hstatus /\ "DMA" \notin hstatus
                            /\ hpc = "ack" => phase = "dead" /\ nintr \subseteq hstatus
                            /\ hpc = "wake" => phase = "none" /\ nintr = {} /\ eintr = {}
    /\ hpc = "error" => "ERR" \in hstatus /\ phase = "dead" /\ nintr = {} /\ eintr = {}

(* The controller runs the command the main thread waits for.              *)
OwnInv == pc \in Working =>
    /\ running = cmd /\ kind \in {"plain", "data"}
    /\ want \in {{"CC"}, {"TC", "DMA"}}
    /\ want = {"TC", "DMA"} => kind = "data" /\ resp = cmd

(* What a bit under way says of the controller: each is raised by the      *)
(* current command, is at one place only, and none comes before the        *)
(* response.                                                               *)
SignalInv == pc \in Working =>
    /\ phase = "cmd" => /\ pc = "wait" /\ want = {"CC"} /\ Flight = {}
                        /\ eintr = {} /\ hpc = "out"
    /\ "CC" \in Flight => respReg = cmd /\ (kind = "plain" => phase = "none" /\ eintr = {})
    /\ "TC" \in Flight => phase = "none" /\ eintr = {} /\ moved = cmd /\ kind = "data"
    /\ "DMA" \in Flight => phase = "paused" /\ eintr = {} /\ kind = "data"
    /\ phase \in {"data", "paused"} => kind = "data" /\ respReg = cmd
    /\ intr_status \cap (nintr \cup hstatus) = {}
    /\ "ERR" \in intr_status => Quiet /\ phase = "none" /\ pc # "after" /\ want = {"CC"}
                                /\ "CC" \in intr_status

(* The response overtakes nothing and is overtaken by nothing: while the   *)
(* main thread waits for it, no bit of the transfer arrives without it;    *)
(* once it is seen, it does not come back.                                 *)
OrderInv ==
    /\ pc = "wait" /\ want = {"CC"} =>
        /\ {"TC", "DMA"} \cap intr_status # {} => "CC" \in intr_status
        /\ {"TC", "DMA"} \cap hstatus # {} => "CC" \in hstatus \cup intr_status
        /\ {"TC", "DMA"} \cap nintr # {} => "CC" \in Flight
        /\ phase \in {"data", "paused"} => "CC" \in Flight
    /\ pc \in {"load", "store", "after"} \/ (pc = "wait" /\ want = {"TC", "DMA"}) =>
        "CC" \notin nintr /\ "CC" \notin hstatus
    /\ pc \in Working /\ want = {"TC", "DMA"} => "CC" \notin intr_status

(* What wait_intr's status says of the controller.                         *)
SeenInv == pc \in {"load", "store", "after"} =>
    /\ pc = "after" => {"ERR", "TIMEOUT"} \cap status = {} /\ status \cap intr_status = {}
    /\ status = {} => pc = "after" /\ Quiet
    /\ "TIMEOUT" \in status => Quiet
    /\ "ERR" \in status => Quiet /\ phase = "none"
    /\ "CC" \in status => want = {"CC"} /\ respReg = cmd /\ (kind = "plain" => Quiet)
    /\ "TC" \in status => want = {"TC", "DMA"} /\ Quiet /\ moved = cmd
    /\ "DMA" \in status => want = {"TC", "DMA"} /\ Quiet /\ phase = "paused"
    /\ "CARD" \notin status /\ "BUF" \notin status
    /\ pc = "store" => tmp \subseteq intr_status
    /\ pc \in {"load", "store"} /\ "ERR" \in intr_status => "ERR" \in status

(* What a command that ended without an error has.                         *)
EndInv == pc = "idle" /\ cmd > 0 /\ outcome = "ok" =>
              resp = cmd /\ (kind = "data" => moved = cmd)

PromptInv == BetweenInv /\ HandlerInv /\ OwnInv /\ SignalInv /\ OrderInv /\ SeenInv /\ EndInv

IInv == TypeOK /\ (Prompt => PromptInv)
-----------------------------------------------------------------------------
(* Init establishes the invariant, on every card.                          *)
LEMMA InitInv == Init => IInv
<1> SUFFICES ASSUME Init PROVE IInv
  OBVIOUS
<1>1. TypeOK
  BY HostAssumption DEF Init, TypeOK, Kinds
<1>2. BetweenInv /\ HandlerInv /\ OwnInv /\ SignalInv
  BY DEF Init, BetweenInv, HandlerInv, OwnInv, SignalInv, Quiet, Flight, Working
<1>3. OrderInv /\ SeenInv /\ EndInv
  BY DEF Init, OrderInv, SeenInv, EndInv, Working
<1>4. QED
  BY <1>1, <1>2, <1>3 DEF IInv, PromptInv

(* Types, on every card.                                                   *)
LEMMA TypeStep == TypeOK /\ [Next]_vars => TypeOK'
<1> SUFFICES ASSUME TypeOK, [Next]_vars PROVE TypeOK'
  OBVIOUS
<1>0. MaxCmds \in Nat /\ MaxPauses \in Nat
  BY HostAssumption
<1> USE DEF TypeOK, Kinds, Bits, Errors, mainVars, ctlVars
<1>1. ASSUME NEW k \in Kinds, ExecCommand(k) PROVE TypeOK'
  BY <1>0, <1>1 DEF ExecCommand, At
<1>2. CASE StartRefused
  BY <1>2 DEF StartRefused, End, At
<1>3. CASE StartCommand
  BY <1>0, <1>3 DEF StartCommand, At
<1>4. CASE WaitSeen \/ WaitTimeout
  BY <1>4, ZenonT(40) DEF WaitSeen, WaitTimeout, At
<1>5. CASE WaitLoad \/ WaitStore
  BY <1>5, ZenonT(40) DEF WaitLoad, WaitStore, At
<1>6. CASE CommandDone \/ TransferStep
  BY <1>6, ZenonT(40) DEF CommandDone, TransferStep, UsesDma, End, At
<1>7. CASE IntrEnter \/ IntrAck
  BY <1>7, ZenonT(40) DEF IntrEnter, IntrAck, NINTR_STATUS
<1>8. CASE IntrError \/ IntrWake
  BY <1>8, ZenonT(40) DEF IntrError, IntrWake
<1>9. CASE CtlResponse
  BY <1>9 DEF CtlResponse
<1>10. CASE CtlTransfer
  BY <1>10 DEF CtlTransfer
<1>11. CASE CtlBoundary
  BY <1>0, <1>11 DEF CtlBoundary
<1>12. ASSUME NEW e \in Errors, CtlError(e) PROVE TypeOK'
  BY <1>12 DEF CtlError
<1>13. CASE Bounce
  BY <1>13 DEF Bounce
<1>14. CASE UNCHANGED vars
  BY <1>14 DEF vars
<1>15. CASE CtlBuffer
  BY <1>15 DEF CtlBuffer
<1>16. QED
  BY <1>1, <1>2, <1>3, <1>4, <1>5, <1>6, <1>7, <1>8, <1>9, <1>10, <1>11, <1>12, <1>13, <1>14,
     <1>15 DEF Next, Main, Handler, Controller
-----------------------------------------------------------------------------
(* The first wait ends with the response, or with an error beside it.      *)
LEMMA FirstWait ==
    ASSUME TypeOK, PromptInv, pc = "wait", want = {"CC"}, intr_status # {}
    PROVE  "CC" \in intr_status
<1>1. intr_status \subseteq {"CC", "TC", "DMA", "ERR"}
  BY DEF TypeOK, PromptInv, HandlerInv, Flight, Bits
<1>2. "ERR" \in intr_status => "CC" \in intr_status
  BY DEF PromptInv, SignalInv, Working
<1>3. {"TC", "DMA"} \cap intr_status # {} => "CC" \in intr_status
  BY DEF PromptInv, OrderInv
<1>4. QED
  BY <1>1, <1>2, <1>3

(* sdhc_exec_command starts when the controller is quiet.                  *)
LEMMA ExecCommandInv ==
    ASSUME TypeOK, Prompt, PromptInv, NEW k \in Kinds, ExecCommand(k)
    PROVE  PromptInv'
<1> USE DEF Quiet, Flight, Working, At, mainVars, ctlVars
<1>1. QED
  BY DEF PromptInv, BetweenInv, HandlerInv, OwnInv, SignalInv, OrderInv, SeenInv, EndInv,
      ExecCommand

(* A command that is refused starts nothing.                               *)
LEMMA StartRefusedInv ==
    ASSUME TypeOK, Prompt, PromptInv, StartRefused
    PROVE  PromptInv'
<1> USE DEF Quiet, Flight, Working, At, mainVars, ctlVars
<1>1. QED
  BY DEF PromptInv, BetweenInv, HandlerInv, OwnInv, SignalInv, OrderInv, SeenInv, EndInv,
      StartRefused, End

(* A command starts with no interrupt bit under way.                       *)
LEMMA StartCommandInv ==
    ASSUME TypeOK, Prompt, PromptInv, StartCommand
    PROVE  PromptInv'
<1> USE DEF Quiet, Flight, Working, At, mainVars, ctlVars
<1>1. BetweenInv' /\ HandlerInv' /\ SeenInv' /\ EndInv'
  BY DEF PromptInv, BetweenInv, HandlerInv, SeenInv, EndInv, StartCommand
<1>2. OwnInv'
  BY DEF PromptInv, OwnInv, TypeOK, Kinds, StartCommand
<1>3. SignalInv'
  BY DEF PromptInv, SignalInv, HandlerInv, BetweenInv, StartCommand
<1>4. OrderInv'
  BY DEF PromptInv, OrderInv, HandlerInv, BetweenInv, StartCommand
<1>5. QED
  BY <1>1, <1>2, <1>3, <1>4 DEF PromptInv

(* A bit ends the wait: the one waited for, or with it an error.           *)
LEMMA WaitSeenInv ==
    ASSUME TypeOK, Prompt, PromptInv, WaitSeen
    PROVE  PromptInv'
<1> USE DEF Quiet, Flight, Working, At, mainVars, ctlVars
<1>1. BetweenInv' /\ HandlerInv' /\ OwnInv' /\ SignalInv' /\ EndInv'
  BY DEF PromptInv, BetweenInv, HandlerInv, OwnInv, SignalInv, EndInv, WaitSeen
<1>2. OrderInv'
  <2>1. /\ hpc = "out" /\ pc = "wait" /\ pc' = "load" /\ intr_status # {}
        /\ UNCHANGED <<want, intr_status, nintr, hstatus>>
    BY DEF WaitSeen
  <2>2. hstatus = {} /\ want \in {{"CC"}, {"TC", "DMA"}}
    BY <2>1 DEF PromptInv, HandlerInv, OwnInv
  <2>3. "CC" \notin nintr
    BY <2>1, <2>2, FirstWait DEF PromptInv, SignalInv, OrderInv
  <2>4. QED
    BY <2>1, <2>2, <2>3 DEF PromptInv, OrderInv
<1>3. SeenInv'
  <2>1. /\ hpc = "out" /\ hpc' = "out" /\ pc = "wait" /\ pc' = "load" /\ intr_status # {}
        /\ status' = intr_status \cap (want \cup {"ERR"})
        /\ UNCHANGED <<cmd, kind, want, intr_status, nintr, eintr, phase, respReg, moved, hstatus>>
    BY DEF WaitSeen
  <2>2. /\ "CARD" \notin intr_status /\ hstatus = {} /\ nintr \subseteq {"CC", "TC", "DMA"}
        /\ intr_status \subseteq {"CC", "TC", "DMA", "ERR"}
    BY <2>1 DEF PromptInv, HandlerInv, TypeOK, Bits
  <2>3. SignalInv /\ OrderInv
    BY DEF PromptInv
  <2>4. CASE want = {"CC"}
    <3>1. "CC" \in intr_status
      BY <2>1, <2>4, FirstWait
    <3>2. respReg = cmd /\ (kind = "plain" => Quiet)
      BY <2>1, <2>2, <2>3, <3>1 DEF SignalInv
    <3>3. "ERR" \in intr_status => Quiet /\ phase = "none"
      BY <2>1, <2>3 DEF SignalInv
    <3>4. /\ status' \subseteq {"CC", "ERR"} /\ "CC" \in status'
          /\ "ERR" \in status' <=> "ERR" \in intr_status
      BY <2>1, <2>4, <3>1
    <3>5. QED
      BY <2>1, <2>4, <3>2, <3>3, <3>4 DEF SeenInv
  <2>5. CASE want = {"TC", "DMA"}
    <3>1. intr_status \subseteq {"TC", "DMA"} /\ status' = intr_status
      BY <2>1, <2>2, <2>3, <2>5 DEF OrderInv, SignalInv
    <3>2. "TC" \in intr_status => phase = "none" /\ eintr = {} /\ moved = cmd
      BY <2>1, <2>3 DEF SignalInv
    <3>3. "DMA" \in intr_status => phase = "paused" /\ eintr = {}
      BY <2>1, <2>3 DEF SignalInv
    <3>4. nintr = {}
      BY <2>1, <2>2, <2>3, <2>5, <3>1, <3>2, <3>3 DEF OrderInv, SignalInv
    <3>5. QED
      BY <2>1, <2>5, <3>1, <3>2, <3>3, <3>4 DEF SeenInv
  <2>6. QED
    BY <2>1, <2>4, <2>5 DEF PromptInv, OwnInv
<1>4. QED
  BY <1>1, <1>2, <1>3 DEF PromptInv

(* On a prompt card a timeout means that nothing more will come.           *)
LEMMA WaitTimeoutInv ==
    ASSUME TypeOK, Prompt, PromptInv, WaitTimeout
    PROVE  PromptInv'
<1> USE DEF Quiet, Flight, Working, At, mainVars, ctlVars
<1>1. BetweenInv' /\ HandlerInv' /\ OwnInv' /\ EndInv'
  BY DEF PromptInv, BetweenInv, HandlerInv, OwnInv, EndInv, WaitTimeout, NINTR_STATUS
<1>2. SignalInv'
  BY DEF PromptInv, SignalInv, Prompt, WaitTimeout, NINTR_STATUS
<1>3. OrderInv'
  BY DEF PromptInv, OrderInv, HandlerInv, Prompt, WaitTimeout, NINTR_STATUS
<1>4. SeenInv'
  BY DEF PromptInv, SeenInv, Prompt, WaitTimeout, NINTR_STATUS
<1>5. QED
  BY <1>1, <1>2, <1>3, <1>4 DEF PromptInv

(* The load of the masking store.                                          *)
LEMMA WaitLoadInv ==
    ASSUME TypeOK, Prompt, PromptInv, WaitLoad
    PROVE  PromptInv'
<1> USE DEF Quiet, Flight, Working, At, mainVars, ctlVars
<1>1. QED
  BY DEF PromptInv, BetweenInv, HandlerInv, OwnInv, SignalInv, OrderInv, SeenInv, EndInv, WaitLoad

(* The masking store may lose bits that came since the load, never invent one. *)
LEMMA WaitStoreInv ==
    ASSUME TypeOK, Prompt, PromptInv, WaitStore
    PROVE  PromptInv'
<1> USE DEF Quiet, Flight, Working, At, mainVars, ctlVars
<1>1. BetweenInv' /\ OwnInv' /\ EndInv'
  BY DEF PromptInv, BetweenInv, OwnInv, EndInv, WaitStore
<1>2. HandlerInv'
  BY DEF PromptInv, HandlerInv, SeenInv, WaitStore
<1>3. SignalInv'
  <2>1. /\ hpc = "out" /\ hpc' = "out" /\ pc = "store" /\ pc' = "after"
        /\ intr_status' = tmp \ status /\ nintr' \subseteq nintr
        /\ UNCHANGED <<cmd, kind, want, hstatus, eintr, running, respReg, moved>>
        /\ "ERR" \in status => phase' = "none"
        /\ "ERR" \notin status => phase' = phase
    BY DEF WaitStore
  <2>2. /\ tmp \subseteq intr_status
        /\ "ERR" \in intr_status => "ERR" \in status
        /\ "ERR" \in status => phase = "none"
    BY <2>1 DEF PromptInv, SeenInv
  <2>3. phase' = phase /\ Flight' \subseteq Flight /\ "ERR" \notin intr_status'
    BY <2>1, <2>2
  <2>4. QED
    BY <2>1, <2>2, <2>3 DEF PromptInv, SignalInv
<1>4. OrderInv'
  BY DEF PromptInv, OrderInv, SeenInv, WaitStore
<1>5. SeenInv'
  <2>1. /\ hpc = "out" /\ hpc' = "out" /\ pc = "store" /\ pc' = "after"
        /\ intr_status' = tmp \ status /\ nintr' \subseteq nintr
        /\ UNCHANGED <<cmd, kind, want, eintr, running, respReg, moved>>
    BY DEF WaitStore
  <2>2. CASE "ERR" \in status \/ "TIMEOUT" \in status
    <3>1. status' = {} /\ phase' \in {phase, "none"}
      BY <2>2 DEF WaitStore
    <3>2. Quiet
      BY <2>1, <2>2 DEF PromptInv, SeenInv
    <3>3. QED
      BY <2>1, <3>1, <3>2 DEF SeenInv
  <2>3. CASE ~("ERR" \in status \/ "TIMEOUT" \in status)
    <3>1. status' = status /\ phase' = phase /\ nintr' = nintr
      BY <2>3 DEF WaitStore
    <3>2. QED
      BY <2>1, <2>3, <3>1 DEF PromptInv, SeenInv
  <2>4. QED
    BY <2>2, <2>3
<1>6. QED
  BY <1>1, <1>2, <1>3, <1>4, <1>5 DEF PromptInv

(* After the first wait: the response read is the command's own.           *)
LEMMA CommandDoneInv ==
    ASSUME TypeOK, Prompt, PromptInv, CommandDone
    PROVE  PromptInv'
<1> USE DEF Quiet, Flight, Working, At, mainVars, ctlVars
<1>0. UsesDma <=> kind = "data"
  BY DEF UsesDma, Prompt
<1>1. HandlerInv' /\ SignalInv' /\ SeenInv'
  BY <1>0 DEF PromptInv, HandlerInv, SignalInv, SeenInv, CommandDone, End
<1>2. BetweenInv'
  BY <1>0 DEF PromptInv, BetweenInv, SeenInv, OwnInv, TypeOK, Bits, Errors, CommandDone, End
<1>3. OwnInv'
  BY <1>0 DEF PromptInv, OwnInv, SeenInv, CommandDone, End
<1>4. OrderInv'
  BY <1>0 DEF PromptInv, OrderInv, SeenInv, CommandDone, End
<1>5. EndInv'
  BY <1>0 DEF PromptInv, EndInv, SeenInv, CommandDone, End
<1>6. QED
  BY <1>1, <1>2, <1>3, <1>4, <1>5 DEF PromptInv

(* After a later wait: the end of the transfer, or its resumption.         *)
LEMMA TransferStepInv ==
    ASSUME TypeOK, Prompt, PromptInv, TransferStep
    PROVE  PromptInv'
<1> USE DEF Quiet, Flight, Working, At, mainVars, ctlVars
<1>1. HandlerInv' /\ OwnInv' /\ OrderInv' /\ SeenInv'
  BY DEF PromptInv, HandlerInv, OwnInv, OrderInv, SeenInv, TransferStep, End
<1>2. BetweenInv'
  BY DEF PromptInv, BetweenInv, SeenInv, TransferStep, End
<1>3. SignalInv'
  BY DEF PromptInv, SignalInv, HandlerInv, SeenInv, TypeOK, Bits, Errors, TransferStep, End
<1>4. EndInv'
  BY DEF PromptInv, EndInv, SeenInv, OwnInv, TransferStep, End
<1>5. QED
  BY <1>1, <1>2, <1>3, <1>4 DEF PromptInv

(* The handler takes a snapshot of the status bits.                        *)
LEMMA IntrEnterInv ==
    ASSUME TypeOK, Prompt, PromptInv, IntrEnter
    PROVE  PromptInv'
<1> USE DEF Quiet, Flight, Working, At, mainVars, ctlVars
<1>1. BetweenInv' /\ OwnInv' /\ SeenInv' /\ EndInv'
  BY DEF PromptInv, BetweenInv, OwnInv, SeenInv, EndInv, IntrEnter, NINTR_STATUS
<1>2. HandlerInv'
  BY DEF PromptInv, HandlerInv, SignalInv, BetweenInv, TypeOK, Bits, Errors, IntrEnter,
      NINTR_STATUS
<1>3. SignalInv'
  <2>1. /\ hpc = "out" /\ hpc' = "ack" /\ hstatus = {} /\ hstatus' \subseteq nintr \cup {"ERR"}
        /\ UNCHANGED <<pc, cmd, kind, want, intr_status, nintr, eintr, phase, running, respReg,
                       moved>>
        /\ "ERR" \in hstatus' => eintr # {}
        /\ nintr # {} \/ eintr # {}
    BY DEF IntrEnter, NINTR_STATUS, PromptInv, HandlerInv, TypeOK, Bits
  <2>2. Flight' \subseteq Flight \cup {"ERR"} /\ "ERR" \notin nintr
    BY <2>1 DEF TypeOK, Bits
  <2>3. QED
    BY <2>1, <2>2 DEF PromptInv, SignalInv
<1>4. OrderInv'
  BY DEF PromptInv, OrderInv, HandlerInv, IntrEnter, NINTR_STATUS
<1>5. QED
  BY <1>1, <1>2, <1>3, <1>4 DEF PromptInv

(* The acknowledgement clears what the handler has seen.                   *)
LEMMA IntrAckInv ==
    ASSUME TypeOK, Prompt, PromptInv, IntrAck
    PROVE  PromptInv'
<1> USE DEF Quiet, Flight, Working, At, mainVars, ctlVars
<1>1. QED
  BY DEF PromptInv, BetweenInv, HandlerInv, OwnInv, SignalInv, OrderInv, SeenInv, EndInv, IntrAck

(* The error service finds no error bits left and resets the lines.        *)
LEMMA IntrErrorInv ==
    ASSUME TypeOK, Prompt, PromptInv, IntrError
    PROVE  PromptInv'
<1> USE DEF Quiet, Flight, Working, At, mainVars, ctlVars
<1>1. BetweenInv' /\ HandlerInv' /\ OwnInv' /\ OrderInv' /\ EndInv'
  BY DEF PromptInv, BetweenInv, HandlerInv, OwnInv, OrderInv, EndInv, IntrError
<1>2. SignalInv'
  BY DEF PromptInv, SignalInv, HandlerInv, IntrError
<1>3. SeenInv'
  BY DEF PromptInv, SeenInv, HandlerInv, IntrError
<1>4. QED
  BY <1>1, <1>2, <1>3 DEF PromptInv

(* The handler hands its bits to the waiting main thread.                  *)
LEMMA IntrWakeInv ==
    ASSUME TypeOK, Prompt, PromptInv, IntrWake
    PROVE  PromptInv'
<1> USE DEF Quiet, Flight, Working, At, mainVars, ctlVars
<1>1. BetweenInv' /\ HandlerInv' /\ OwnInv' /\ OrderInv' /\ EndInv'
  BY DEF PromptInv, BetweenInv, HandlerInv, OwnInv, OrderInv, EndInv, IntrWake
<1>2. SignalInv'
  BY DEF PromptInv, SignalInv, HandlerInv, OrderInv, OwnInv, IntrWake
<1>3. SeenInv'
  BY DEF PromptInv, SeenInv, HandlerInv, OrderInv, TypeOK, Bits, Errors, IntrWake
<1>4. QED
  BY <1>1, <1>2, <1>3 DEF PromptInv

(* The response of the card.                                               *)
LEMMA CtlResponseInv ==
    ASSUME TypeOK, Prompt, PromptInv, CtlResponse
    PROVE  PromptInv'
<1> USE DEF Quiet, Flight, Working, At, mainVars, ctlVars
<1>1. BetweenInv' /\ OwnInv' /\ EndInv'
  BY DEF PromptInv, BetweenInv, OwnInv, EndInv, CtlResponse
<1>2. HandlerInv'
  BY DEF PromptInv, HandlerInv, SignalInv, BetweenInv, TypeOK, Bits, Errors, CtlResponse
<1>3. SignalInv'
  BY DEF PromptInv, SignalInv, OwnInv, CtlResponse
<1>4. OrderInv'
  BY DEF PromptInv, OrderInv, SignalInv, CtlResponse
<1>5. SeenInv'
  BY DEF PromptInv, SeenInv, SignalInv, CtlResponse
<1>6. QED
  BY <1>1, <1>2, <1>3, <1>4, <1>5 DEF PromptInv

(* The end of a transfer.                                                  *)
LEMMA CtlTransferInv ==
    ASSUME TypeOK, Prompt, PromptInv, CtlTransfer
    PROVE  PromptInv'
<1> USE DEF Quiet, Flight, Working, At, mainVars, ctlVars
<1>1. BetweenInv' /\ OwnInv' /\ OrderInv' /\ SeenInv'
  BY DEF PromptInv, BetweenInv, OwnInv, OrderInv, SeenInv, CtlTransfer
<1>2. HandlerInv'
  BY DEF PromptInv, HandlerInv, SignalInv, BetweenInv, TypeOK, Bits, Errors, CtlTransfer
<1>3. SignalInv'
  BY DEF PromptInv, SignalInv, HandlerInv, OwnInv, CtlTransfer
<1>4. EndInv'
  BY DEF PromptInv, EndInv, BetweenInv, CtlTransfer
<1>5. QED
  BY <1>1, <1>2, <1>3, <1>4 DEF PromptInv

(* A DMA boundary.                                                         *)
LEMMA CtlBoundaryInv ==
    ASSUME TypeOK, Prompt, PromptInv, CtlBoundary
    PROVE  PromptInv'
<1> USE DEF Quiet, Flight, Working, At, mainVars, ctlVars
<1>1. BetweenInv' /\ OwnInv' /\ OrderInv' /\ SeenInv' /\ EndInv'
  BY DEF PromptInv, BetweenInv, OwnInv, OrderInv, SeenInv, EndInv, CtlBoundary
<1>2. HandlerInv'
  BY DEF PromptInv, HandlerInv, SignalInv, BetweenInv, TypeOK, Bits, Errors, CtlBoundary
<1>3. SignalInv'
  BY DEF PromptInv, SignalInv, HandlerInv, CtlBoundary
<1>4. QED
  BY <1>1, <1>2, <1>3 DEF PromptInv

(* An error stops the controller.                                          *)
LEMMA CtlErrorInv ==
    ASSUME TypeOK, Prompt, PromptInv, NEW e \in Errors, CtlError(e)
    PROVE  PromptInv'
<1> USE DEF Quiet, Flight, Working, At, mainVars, ctlVars
<1>1. QED
  BY DEF PromptInv, BetweenInv, HandlerInv, OwnInv, SignalInv, OrderInv, SeenInv, EndInv, CtlError
-----------------------------------------------------------------------------
(* Every step keeps the invariant.  The quirks are the card's, so a prompt *)
(* card stays one, and raises no card detect bits.                         *)
LEMMA StepInv == IInv /\ [Next]_vars => IInv'
<1> SUFFICES ASSUME IInv, [Next]_vars PROVE IInv'
  OBVIOUS
<1>1. TypeOK'
  BY TypeStep DEF IInv
<1>2. quirks' = quirks
  <2>1. CASE Main
    BY <2>1 DEF Main, ExecCommand, StartRefused, StartCommand, WaitSeen, WaitTimeout, WaitLoad,
                WaitStore, CommandDone, TransferStep, ctlVars
  <2>2. CASE Handler
    BY <2>2 DEF Handler, IntrEnter, IntrAck, IntrError, IntrWake, ctlVars
  <2>3. CASE Controller \/ Bounce
    BY <2>3 DEF Controller, CtlResponse, CtlTransfer, CtlBoundary, CtlBuffer, CtlError, Bounce
  <2>4. CASE UNCHANGED vars
    BY <2>4 DEF vars, ctlVars
  <2>5. QED
    BY <2>1, <2>2, <2>3, <2>4 DEF Next
<1>3. ASSUME Prompt PROVE PromptInv'
  <2>1. TypeOK /\ PromptInv
    BY <1>3 DEF IInv
  <2>2. CASE Main
    BY <1>3, <2>1, <2>2, ExecCommandInv, StartRefusedInv, StartCommandInv, WaitSeenInv,
       WaitTimeoutInv, WaitLoadInv, WaitStoreInv, CommandDoneInv, TransferStepInv DEF Main
  <2>3. CASE Handler
    BY <1>3, <2>1, <2>3, IntrEnterInv, IntrAckInv, IntrErrorInv, IntrWakeInv DEF Handler
  <2>4. CASE Controller
    <3>1. ~CtlBuffer
      BY <1>3 DEF CtlBuffer, Prompt
    <3>2. QED
      BY <1>3, <2>1, <2>4, <3>1, CtlResponseInv, CtlTransferInv, CtlBoundaryInv, CtlErrorInv
         DEF Controller
  <2>5. ~Bounce
    BY <1>3 DEF Bounce, Prompt
  <2>6. CASE UNCHANGED vars
    <3>1. UNCHANGED <<pc, cmd, kind, want, status, tmp, outcome, resp, intr_status, hpc, hstatus,
                      nintr, eintr, phase, running, respReg, moved>>
      BY <2>6 DEF vars, mainVars, ctlVars
    <3>2. BetweenInv' /\ HandlerInv' /\ OwnInv' /\ SignalInv'
      BY <2>1, <3>1 DEF PromptInv, BetweenInv, HandlerInv, OwnInv, SignalInv, Quiet, Flight
    <3>3. OrderInv' /\ SeenInv' /\ EndInv'
      BY <2>1, <3>1 DEF PromptInv, OrderInv, SeenInv, EndInv, Quiet, Flight
    <3>4. QED
      BY <3>2, <3>3 DEF PromptInv
  <2>7. QED
    BY <2>2, <2>3, <2>4, <2>5, <2>6 DEF Next
<1>4. QED
  BY <1>1, <1>2, <1>3 DEF IInv, Prompt

(* The inductive invariant: types on every card, and on a prompt one where *)
(* each interrupt bit is and what it says of the controller.               *)
THEOREM HostInvariant == Spec => []IInv
  BY InitInv, StepInv, PTL DEF Spec

(* Main thread, handler and controller keep their types on every card.     *)
THEOREM HostTypes == Spec => []TypeOK
<1>1. IInv => TypeOK
  BY DEF IInv
<1>2. QED
  BY <1>1, HostInvariant, PTL

(* On a prompt card, sdhc_exec_command that ends without an error returns  *)
(* the response of its own command.                                        *)
THEOREM ResponsesAreOwn == Spec => []ResponseIsOwnIfPrompt
<1>1. IInv => ResponseIsOwnIfPrompt
  BY DEF IInv, PromptInv, EndInv, ResponseIsOwnIfPrompt, ResponseIsOwn
<1>2. QED
  BY <1>1, HostInvariant, PTL

(* On a prompt card, a data command that ends without an error has moved   *)
(* its data and the controller is off the buffer.                          *)
THEOREM TransfersAreDone == Spec => []TransferIsDone
<1>1. IInv => TransferIsDone
  BY DEF IInv, PromptInv, EndInv, BetweenInv, Quiet, TransferIsDone
<1>2. QED
  BY <1>1, HostInvariant, PTL

(* On a prompt card, however a command ends, the controller works for      *)
(* nobody when sdhc_exec_command returns.                                  *)
THEOREM ReturnsQuiet == Spec => []QuietAfterReturn
<1>1. IInv => QuietAfterReturn
  BY DEF IInv, PromptInv, BetweenInv, Quiet, QuietAfterReturn
<1>2. QED
  BY <1>1, HostInvariant, PTL
-----------------------------------------------------------------------------
(* Every timeout of the driver counts calls of udelay.  It is punctual for *)
(* every width of the timer, every delay below a period and every bound on *)
(* the ticks between two reads.                                            *)

(* Where the timer would stand if the period in which `then' lies had      *)
(* begun before the delay; negative before the wrap.                       *)
Position == then - ticks + elapsed

(* Until the delay is over the timer is known, the first loop is not left  *)
(* before the wrap and the second one has not seen `then'.                 *)
EarlyInv ==
    /\ dpc \in {"wrap", "reread"} => then < ticks /\ now = then - ticks + Wrap
    /\ dpc = "wrap" /\ elapsed < ticks =>
           timer = IF Position < 0 THEN Position + Wrap ELSE Position
    /\ dpc = "reread" /\ elapsed < ticks => timer = Position
    /\ dpc = "poll" /\ elapsed < ticks => timer = Position /\ now <= timer
    /\ dpc = "done" => elapsed >= ticks

(* When every value of the timer is read: how far it is at the last read,  *)
(* `gap' ticks ago.                                                        *)
LateInv ==
    /\ dpc \in {"wrap", "reread", "poll"} /\ maxgap <= 1 => elapsed - gap \in 0 .. ticks + 1
    /\ dpc = "wrap" /\ maxgap <= 1 =>
           /\ elapsed - gap < ticks - then
           /\ timer = IF Position < 0 THEN Position + Wrap ELSE Position
    /\ dpc = "reread" /\ maxgap <= 1 => elapsed - gap = ticks - then /\ timer = Position
    /\ dpc = "poll" /\ maxgap <= 1 /\ now < then => now = Position - gap /\ timer = Position

(* The inductive invariant of udelay.                                      *)
DelayInv == UdelayTypeOK /\ EarlyInv /\ LateInv
-----------------------------------------------------------------------------
(* What the two sums of udelay and the timer leave modulo a period.        *)
LEMMA OneWrap ==
    ASSUME NEW t \in Count, NEW k \in 0 .. Wrap
    PROVE  (t + k) % Wrap = IF t + k < Wrap THEN t + k ELSE t + k - Wrap
BY TimerAssumption DEF Count

(* d * 19 / 10 for an argument of a caller fits into a period.             *)
LEMMA TicksType == \A d \in Delays : Ticks(d) \in 2 .. Wrap - 1
BY TimerAssumption DEF Ticks

(* UdelayInit establishes the invariant.                                   *)
LEMMA DelayInit == UdelayInit => DelayInv
BY TimerAssumption DEF UdelayInit, DelayInv, UdelayTypeOK, EarlyInv, LateInv, Count

(* Every step preserves it.                                                *)
LEMMA DelayStep == DelayInv /\ [UdelayNext]_udelayVars => DelayInv'
<1> SUFFICES ASSUME DelayInv, [UdelayNext]_udelayVars PROVE DelayInv'
  OBVIOUS
<1> USE TimerAssumption DEF DelayInv, UdelayTypeOK, Count
<1>1. ASSUME NEW d \in Delays, Start(d) PROVE DelayInv'
  BY <1>1, TicksType DEF Start, EarlyInv, LateInv
<1>2. CASE ReadNow
  <2>1. then' = IF timer + ticks < Wrap THEN timer + ticks ELSE timer + ticks - Wrap
    BY <1>2, OneWrap DEF ReadNow
  <2>2. QED
    BY <1>2, <2>1 DEF ReadNow, EarlyInv, LateInv, Position
<1>3. CASE WaitWrap
  BY <1>3 DEF WaitWrap, EarlyInv, LateInv, Position
<1>4. CASE Reread
  BY <1>4 DEF Reread, EarlyInv, LateInv, Position
<1>5. CASE Poll
  BY <1>5 DEF Poll, EarlyInv, LateInv, Position
<1>6. CASE Tick
  <2>1. timer' = IF timer + 1 < Wrap THEN timer + 1 ELSE 0
    <3>1. 1 \in 0 .. Wrap /\ timer \in Count
      OBVIOUS
    <3>2. (timer + 1) % Wrap = IF timer + 1 < Wrap THEN timer + 1 ELSE timer + 1 - Wrap
      BY <3>1, OneWrap
    <3>3. QED
      BY <1>6, <3>2 DEF Tick
  <2>2. UdelayTypeOK'
    BY <1>6, <2>1 DEF Tick
  <2>3. EarlyInv'
    BY <1>6, <2>1 DEF Tick, EarlyInv, Position
  <2>4. LateInv'
    BY <1>6, <2>1 DEF Tick, LateInv, EarlyInv, Position
  <2>5. QED
    BY <2>2, <2>3, <2>4
<1>7. CASE UNCHANGED udelayVars
  BY <1>7 DEF udelayVars, EarlyInv, LateInv, Position
<1>8. QED
  BY <1>1, <1>2, <1>3, <1>4, <1>5, <1>6, <1>7 DEF UdelayNext, Code

(* The invariant holds throughout, and with it the variables stay within   *)
(* the timer's range.                                                      *)
THEOREM DelayInvariant == UdelaySpec => []DelayInv
BY DelayInit, DelayStep, PTL DEF UdelaySpec

(* udelay never returns early, and a loop that reads every value of the    *)
(* timer sees the end within two ticks, across the wrap too.               *)
THEOREM DelayPunctual == UdelaySpec => []Punctual
<1>1. DelayInv => Punctual
  BY DEF DelayInv, UdelayTypeOK, EarlyInv, LateInv, Punctual
<1>2. QED
  BY DelayInvariant, <1>1, PTL
=============================================================================
