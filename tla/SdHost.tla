------------------------------- MODULE SdHost -------------------------------
(***************************************************************************)
(* The SD host driver (storage/sdhc.c): sdhc_exec_command on the main      *)
(* thread, sdhc_intr in interrupt context, and the host controller.  Both  *)
(* sides share intr_status, which wait_intr clears with a plain load, mask *)
(* and store.  Commands are numbered; a response and a finished transfer   *)
(* carry the number of the command they belong to.  Interrupt registers    *)
(* are sets of their one bits.  The cache and AHB maintenance of the       *)
(* transfer buffer is left out: the data of a transfer are its number.     *)
(***************************************************************************)
EXTENDS Integers

CONSTANTS
    MaxCmds,     \* bound: commands the upper layer executes
    MaxPauses,   \* bound: DMA boundary interrupts of one transfer
    Profiles     \* what may be wrong with the card and the controller: sets of quirks

Quirks == {"slow",    \* a software timeout may expire while the controller works
           "bounce",  \* card detect bits may be raised during a command
           "errors",  \* the controller may report errors
           "nodma",   \* the controller's capabilities are without DMA: no SHF_USE_DMA
           "noclock"} \* ... or without a base clock of 10 to 63 MHz

ASSUME HostAssumption ==
    /\ MaxCmds \in Nat /\ MaxPauses \in Nat
    /\ Profiles \subseteq SUBSET Quirks

VARIABLES
    pc, cmd, kind,   \* main thread; number and kind of the current command
    want,            \* wait_intr's mask
    status,          \* wait_intr's local
    tmp,             \* intr_status as loaded for the masking store
    outcome, resp,   \* c_error and c_resp of the last command
    intr_status,     \* hp->intr_status
    hpc, hstatus,    \* sdhc_intr: position, its local `status'
    nintr, eintr,    \* controller: NINTR_STATUS without bit 15, EINTR_STATUS
    phase, running,  \* controller: phase and number of the command it runs
    respReg,         \* controller: number of the command RESPONSE belongs to
    moved,           \* controller: number of the last finished transfer
    pauses,          \* DMA interrupts of the current transfer
    quirks           \* of the card in the slot and of the controller

mainVars == <<pc, cmd, kind, want, status, tmp, outcome, resp>>
ctlVars == <<nintr, eintr, phase, running, respReg, moved, pauses, quirks>>
vars == <<mainVars, intr_status, hpc, hstatus, ctlVars>>

Kinds == {"plain", "data", "ragged"}
Bits == {"CC", "TC", "DMA", "BUF", "CARD"}
Errors == {"CMD_TIMEOUT", "DATA_TIMEOUT", "CRC"}

TypeOK ==
    /\ pc \in {"idle", "start", "wait", "load", "store", "after"}
    /\ cmd \in 0 .. MaxCmds /\ kind \in Kinds
    /\ want \subseteq Bits /\ status \subseteq Bits \cup {"ERR", "TIMEOUT"}
    /\ tmp \subseteq Bits \cup {"ERR"} /\ intr_status \subseteq Bits \cup {"ERR"}
    /\ outcome \in {"ok", "ETIMEDOUT", "EINVAL"} /\ resp \in 0 .. MaxCmds
    /\ hpc \in {"out", "ack", "error", "wake"} /\ hstatus \subseteq Bits \cup {"ERR"}
    /\ nintr \subseteq Bits /\ eintr \subseteq Errors
    /\ phase \in {"none", "cmd", "data", "paused", "dead"}
    /\ running \in 0 .. MaxCmds /\ respReg \in 0 .. MaxCmds /\ moved \in 0 .. MaxCmds
    /\ pauses \in 0 .. MaxPauses /\ quirks \in Profiles

(* sdhc_host_found has reset the controller and read its capabilities.     *)
Init ==
    /\ pc = "idle" /\ cmd = 0 /\ kind = "plain" /\ want = {} /\ status = {}
    /\ tmp = {} /\ outcome = "ok" /\ resp = 0
    /\ intr_status = {} /\ hpc = "out" /\ hstatus = {}
    /\ nintr = {} /\ eintr = {} /\ phase = "none" /\ running = 0
    /\ respReg = 0 /\ moved = 0 /\ pauses = 0
    /\ quirks \in Profiles

(* NINTR_STATUS as it is read: bit 15 is the disjunction of EINTR_STATUS.  *)
NINTR_STATUS == nintr \cup (IF eintr = {} THEN {} ELSE {"ERR"})

At(l) == pc = l /\ hpc = "out"
-----------------------------------------------------------------------------
(* sdhc_exec_command.  The upper layer runs one command after the other;   *)
(* without a base clock sdhc_host_found ends before sdmmc_attach, and it   *)
(* runs none.                                                              *)
ExecCommand(k) ==
    /\ At("idle") /\ cmd < MaxCmds /\ "noclock" \notin quirks
    /\ cmd' = cmd + 1 /\ kind' = k
    /\ intr_status' = {}
    /\ pc' = "start"
    /\ UNCHANGED <<want, status, tmp, outcome, resp, hpc, hstatus, ctlVars>>

(* The command ends: c_error is set, exec_command returns.                 *)
End(o) == pc' = "idle" /\ outcome' = o

(* sdhc_start_command: the checks, or the controller stays inhibited for   *)
(* longer than sdhc_wait_state waits.                                      *)
StartRefused ==
    /\ At("start")
    /\ \/ kind = "ragged" /\ End("EINVAL")
       \/ kind # "ragged" /\ phase # "none" /\ ("slow" \in quirks \/ phase \in {"dead", "paused"})
          /\ End("ETIMEDOUT")
    /\ UNCHANGED <<cmd, kind, want, status, tmp, resp, intr_status, hpc, hstatus, ctlVars>>

(* sdhc_wait_state saw both inhibit bits clear: registers are written.     *)
StartCommand ==
    /\ At("start") /\ kind # "ragged" /\ phase = "none"
    /\ phase' = "cmd" /\ running' = cmd /\ pauses' = 0
    /\ want' = {"CC"} /\ pc' = "wait"
    /\ UNCHANGED <<cmd, kind, status, tmp, outcome, resp, intr_status, hpc, hstatus,
                   nintr, eintr, respReg, moved, quirks>>

(* sdhc_wait_intr: intr_status is not zero; any bit ends the loop.         *)
WaitSeen ==
    /\ At("wait") /\ intr_status # {}
    /\ status' = intr_status \cap (want \cup {"ERR"})
    /\ pc' = "load"
    /\ UNCHANGED <<cmd, kind, want, tmp, outcome, resp, intr_status, hpc, hstatus, ctlVars>>

NoTimeout == FALSE /\ UNCHANGED vars

(* ... or timo milliseconds have passed without one.  Unless the card is   *)
(* slow, the controller has ended its work, somehow, by then.              *)
WaitTimeout ==
    /\ At("wait") /\ intr_status = {}
    /\ "slow" \in quirks \/ (phase \in {"none", "dead", "paused"} /\ NINTR_STATUS = {})
    /\ status' = {"TIMEOUT"}
    /\ pc' = "load"
    /\ UNCHANGED <<cmd, kind, want, tmp, outcome, resp, intr_status, hpc, hstatus, ctlVars>>

(* hp->intr_status &= ~status: the load ...                                *)
WaitLoad ==
    /\ At("load")
    /\ tmp' = intr_status
    /\ pc' = "store"
    /\ UNCHANGED <<cmd, kind, want, status, outcome, resp, intr_status, hpc, hstatus, ctlVars>>

(* ... and the store, and the two checks that make the returned status 0.  *)
(* An error interrupt resets the CMD and DAT lines, a timeout does not.    *)
WaitStore ==
    /\ At("store")
    /\ intr_status' = tmp \ status
    /\ IF "ERR" \in status
       THEN phase' = "none" /\ nintr' = nintr \ {"CC", "TC", "DMA", "BUF"}
       ELSE UNCHANGED <<phase, nintr>>
    /\ status' = IF {"ERR", "TIMEOUT"} \cap status # {} THEN {} ELSE status
    /\ pc' = "after"
    /\ UNCHANGED <<cmd, kind, want, tmp, outcome, resp, hpc, hstatus, eintr, running,
                   respReg, moved, pauses, quirks>>

UsesDma == kind = "data" /\ "nodma" \notin quirks

TimeoutIgnored ==
    /\ At("after") /\ want = {"CC"}
    /\ resp' = respReg
    /\ IF UsesDma
       THEN pc' = "wait" /\ want' = {"TC", "DMA"} /\ UNCHANGED outcome
       ELSE End("ok") /\ UNCHANGED want
    /\ UNCHANGED <<cmd, kind, status, tmp, intr_status, hpc, hstatus, ctlVars>>

NoTransferWait ==
    /\ At("after") /\ want = {"CC"}
    /\ End(IF "CC" \notin status THEN "ETIMEDOUT" ELSE "ok")
    /\ resp' = IF "CC" \notin status THEN resp ELSE respReg
    /\ UNCHANGED <<cmd, kind, want, status, tmp, intr_status, hpc, hstatus, ctlVars>>

(* exec_command after the first wait: read the response, go on with the    *)
(* transfer.  Without DMA sdhc_transfer_data prints "fail." and the        *)
(* command ends without an error and without its data.                     *)
CommandDone ==
    /\ At("after") /\ want = {"CC"}
    /\ IF "CC" \notin status
       THEN End("ETIMEDOUT") /\ UNCHANGED <<resp, want>>
       ELSE /\ resp' = respReg
            /\ IF UsesDma
               THEN pc' = "wait" /\ want' = {"TC", "DMA"} /\ UNCHANGED outcome
               ELSE End("ok") /\ UNCHANGED want
    /\ UNCHANGED <<cmd, kind, status, tmp, intr_status, hpc, hstatus, ctlVars>>

BoundaryIsEnd ==
    /\ At("after") /\ want = {"TC", "DMA"}
    /\ End(IF status = {} THEN "ETIMEDOUT" ELSE "ok")
    /\ UNCHANGED <<cmd, kind, want, status, tmp, resp, intr_status, hpc, hstatus, ctlVars>>

(* sdhc_transfer_data: nothing, the end, or a DMA boundary.                *)
TransferStep ==
    /\ At("after") /\ want = {"TC", "DMA"}
    /\ IF status = {} THEN End("ETIMEDOUT") /\ UNCHANGED phase
       ELSE IF "TC" \in status THEN End("ok") /\ UNCHANGED phase
       ELSE /\ pc' = "wait" /\ UNCHANGED outcome
            /\ phase' = IF phase = "paused" THEN "data" ELSE phase
    /\ UNCHANGED <<cmd, kind, want, status, tmp, resp, intr_status, hpc, hstatus, nintr,
                   eintr, running, respReg, moved, pauses, quirks>>

Main == \/ \E k \in Kinds : ExecCommand(k)
        \/ StartRefused \/ StartCommand \/ WaitSeen \/ WaitTimeout
        \/ WaitLoad \/ WaitStore \/ CommandDone \/ TransferStep
-----------------------------------------------------------------------------
(* sdhc_intr.  The main thread is stopped, the controller is not.          *)
IntrEnter ==
    /\ hpc = "out" /\ NINTR_STATUS # {}
    /\ hstatus' = NINTR_STATUS
    /\ hpc' = "ack"
    /\ UNCHANGED <<mainVars, intr_status, ctlVars>>

(* HWRITE2(SDHC_NINTR_STATUS, status) is a read-modify-write of the 32-bit *)
(* word that also holds EINTR_STATUS.  Both halves are write-one-to-clear, *)
(* so the error bits that are read are cleared too.                        *)
IntrAck ==
    /\ hpc = "ack"
    /\ nintr' = nintr \ hstatus
    /\ eintr' = {}
    /\ hpc' = IF "ERR" \in hstatus THEN "error" ELSE "wake"
    /\ UNCHANGED <<mainVars, intr_status, hstatus, phase, running, respReg, moved, pauses, quirks>>

(* Error service: EINTR_STATUS is read, CMD and DAT lines are reset, and   *)
(* the acknowledging write takes the other half of the word with it.       *)
IntrError ==
    /\ hpc = "error"
    /\ phase' = "none"
    /\ nintr' = {} /\ eintr' = {}
    /\ intr_status' = IF eintr \cap {"CMD_TIMEOUT", "DATA_TIMEOUT"} # {}
                      THEN intr_status \cup hstatus ELSE intr_status
    /\ hpc' = "wake"
    /\ UNCHANGED <<mainVars, hstatus, running, respReg, moved, pauses, quirks>>

IntrWake ==
    /\ hpc = "wake"
    /\ intr_status' = IF hstatus \cap {"CC", "TC", "DMA", "BUF"} # {}
                      THEN intr_status \cup hstatus ELSE intr_status
    /\ hpc' = "out" /\ hstatus' = {}
    /\ UNCHANGED <<mainVars, ctlVars>>

Handler == IntrEnter \/ IntrAck \/ IntrError \/ IntrWake
-----------------------------------------------------------------------------
(* The controller and the card (external).                                 *)
CtlResponse ==
    /\ phase = "cmd"
    /\ respReg' = running /\ nintr' = nintr \cup {"CC"}
    /\ phase' = IF kind = "data" /\ running = cmd THEN "data" ELSE "none"
    /\ UNCHANGED <<mainVars, intr_status, hpc, hstatus, eintr, running, moved, pauses, quirks>>

CtlTransfer ==
    /\ phase = "data" /\ "nodma" \notin quirks
    /\ moved' = running /\ nintr' = nintr \cup {"TC"}
    /\ phase' = "none"
    /\ UNCHANGED <<mainVars, intr_status, hpc, hstatus, eintr, running, respReg, pauses, quirks>>

CtlBoundary ==
    /\ phase = "data" /\ "nodma" \notin quirks /\ pauses < MaxPauses
    /\ nintr' = nintr \cup {"DMA"} /\ pauses' = pauses + 1
    /\ phase' = "paused"
    /\ UNCHANGED <<mainVars, intr_status, hpc, hstatus, eintr, running, respReg, moved, quirks>>

(* Without DMA the controller waits for the CPU to move its buffer, which  *)
(* nobody does.                                                            *)
CtlBuffer ==
    /\ phase = "data" /\ "nodma" \in quirks
    /\ nintr' = nintr \cup {"BUF"} /\ phase' = "paused"
    /\ UNCHANGED <<mainVars, intr_status, hpc, hstatus, eintr, running, respReg, moved, pauses,
                   quirks>>

CtlError(e) ==
    /\ "errors" \in quirks
    /\ phase \in (CASE e = "CMD_TIMEOUT" -> {"cmd"} [] e = "DATA_TIMEOUT" -> {"data"}
                    [] OTHER -> {"cmd", "data"})
    /\ eintr' = eintr \cup {e} /\ phase' = "dead"
    /\ UNCHANGED <<mainVars, intr_status, hpc, hstatus, nintr, running, respReg, moved,
                   pauses, quirks>>

Bounce ==
    /\ "bounce" \in quirks /\ cmd < MaxCmds
    /\ nintr' = nintr \cup {"CARD"}
    /\ UNCHANGED <<mainVars, intr_status, hpc, hstatus, eintr, phase, running, respReg,
                   moved, pauses, quirks>>

Controller ==
    CtlResponse \/ CtlTransfer \/ CtlBoundary \/ CtlBuffer \/ (\E e \in Errors : CtlError(e))

Next == Main \/ Handler \/ Controller \/ Bounce

Spec == Init /\ [][Next]_vars

(* The controller ends its work, interrupts are taken and their handler    *)
(* finishes, and the main thread gets the CPU back between interrupts.     *)
FairSpec == Spec /\ WF_vars(Controller) /\ WF_vars(Handler) /\ SF_vars(Main)
-----------------------------------------------------------------------------
(* sdhc_exec_command waits for its own command: one that ended without an  *)
(* error has its own response, not that of an earlier command.             *)
ResponseIsOwn ==
    pc = "idle" /\ cmd > 0 /\ outcome = "ok" => resp = cmd

(* The same on a card that answers within the driver's timeouts and does   *)
(* not bounce, whatever errors it reports, behind a controller with DMA.   *)
Prompt == quirks \subseteq {"errors"}
ResponseIsOwnIfPrompt == Prompt => ResponseIsOwn

(* On such a card, a data command that ended without an error has moved    *)
(* its data, and the controller no longer touches the buffer.              *)
TransferIsDone ==
    Prompt /\ pc = "idle" /\ cmd > 0 /\ outcome = "ok" /\ kind = "data" =>
        moved = cmd /\ phase # "data"

(* On such a card, when exec_command returns the controller works for      *)
(* nobody: a buffer handed to the next command cannot be overwritten by    *)
(* this one's DMA.                                                         *)
QuietAfterReturn == Prompt /\ pc = "idle" => phase \notin {"cmd", "data"}

(* Every command ends, on every card.                                      *)
CommandsEnd == pc = "start" ~> pc = "idle"
=============================================================================
