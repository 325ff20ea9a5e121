----------------------------- MODULE Interrupt -----------------------------
(***************************************************************************)
(* Interrupt dispatch at the grain of the CPU: threads/interrupt.c,        *)
(* threads/intr-stubs.S, the timer of devices/timer.c and the exceptions   *)
(* of userprog/exception.c, on top of the scheduler of Thread.             *)
(*                                                                         *)
(* A thread's kernel stack holds one frame per interrupt it is inside of.  *)
(* A frame keeps the vector, the interrupt flag to restore at iret, and    *)
(* how far intr_handler has got.  The 8259A controllers are external: they *)
(* are modelled by what pic_init programs them to do.                      *)
(***************************************************************************)
EXTENDS Thread, Integers, FiniteSetsExt

CONSTANTS
  Irqs,             \* vectors of the devices that interrupt, within 32 .. 47
  Handled,          \* those among them that intr_register_ext was called for
  MaxSleep          \* longest timer_sleep, in ticks

ASSUME InterruptAssumption ==
  /\ Irqs \subseteq 32 .. 47
  /\ Handled \subseteq Irqs
  /\ MaxSleep \in Nat

Timer == 32         \* 0x20, registered by timer_init
Syscall == 48       \* 0x30, registered by syscall_init
PageFault == 14

VARIABLES
  stack,            \* [thread -> sequence of frames, innermost last]
  iflag,            \* the interrupt flag of the CPU
  old_level,        \* [thread -> level thread_yield restores when it resumes]
  in_external_intr, yield_on_return,
  irr,              \* requests the controllers hold
  isr,              \* [0 .. 1 -> lines in service at master and slave]
  left              \* [thread -> ticks its timer_sleep still waits, -1: none]

intrVars == <<stack, iflag, old_level, in_external_intr, yield_on_return,
              irr, isr, left>>
vars == <<schedVars, intrVars>>

Stages == {"enter", "handler", "complete", "exit"}

Frame == [vec: Irqs \cup {Syscall, PageFault}, iflag: BOOLEAN, stage: Stages]

External(vec) == vec >= 32 /\ vec < 48

-----------------------------------------------------------------------------
(* The interrupt controllers: edge triggered, fully nested, the slave on   *)
(* line 2 of the master.                                                   *)

MasterLine(vec) == IF vec >= 40 THEN 34 ELSE vec

\* The CPU is shown a request unless one of its priority or above is being
\* served.
Deliverable(vec) ==
  /\ vec \in irr
  /\ \A line \in isr[0] : MasterLine(vec) < line
  /\ vec >= 40 => \A line \in isr[1] : vec < line

Acknowledged(vec) ==
  [isr EXCEPT ![0] = @ \cup {MasterLine(vec)},
              ![1] = IF vec >= 40 THEN @ \cup {vec} ELSE @]

\* An end of interrupt takes the line of highest priority out of service.
Served(lines) == IF lines = {} THEN lines ELSE lines \ {Min(lines)}

\* Fault: the slave controller is not told.
pic_end_of_interrupt_master(vec) == [isr EXCEPT ![0] = Served(@)]

pic_end_of_interrupt(vec) ==
  [isr EXCEPT ![0] = Served(@), ![1] = IF vec >= 40 THEN Served(@) ELSE @]

-----------------------------------------------------------------------------
Top == stack[running][Len(stack[running])]

InFrame == stack[running] # <<>>

AtStage(stage) == InFrame /\ Top.stage = stage

SetStage(stage) ==
  stack' = [stack EXCEPT ![running][Len(stack[running])].stage = stage]

Push(vec, stage) ==
  stack' = [stack EXCEPT ![running] =
              Append(@, [vec |-> vec, iflag |-> iflag, stage |-> stage])]

\* The thread switched to goes on after its own call of thread_yield, which
\* ends with intr_set_level.  A call with the level given leaves the flag
\* off while the switch is made.
Switch(level) ==
  /\ thread_yield
  /\ old_level' = [old_level EXCEPT ![running] = level]
  /\ iflag' = old_level'[running']

Init ==
  /\ status = [t \in AllThreads |-> IF t = initial_thread THEN "RUNNING"
                                    ELSE IF t = idle_thread THEN "BLOCKED"
                                    ELSE "READY"]
  /\ ready_list \in {seq \in [1 .. Cardinality(Threads) - 1 -> Threads] :
                       Elems(seq) = Threads \ {initial_thread}}
  /\ running = initial_thread
  /\ thread_ticks = 0
  /\ stack = [t \in AllThreads |-> <<>>]
  /\ iflag = TRUE
  /\ old_level = [t \in AllThreads |-> TRUE]
  /\ in_external_intr = FALSE
  /\ yield_on_return = FALSE
  /\ irr = {}
  /\ isr = [c \in 0 .. 1 |-> {}]
  /\ left = [t \in Threads |-> -1]

-----------------------------------------------------------------------------
\* A device raises its line.
Raise(vec) ==
  /\ vec \notin irr
  /\ irr' = irr \cup {vec}
  /\ UNCHANGED <<schedVars, stack, iflag, old_level, in_external_intr,
                 yield_on_return, isr, left>>

\* An external interrupt: the CPU goes through an interrupt gate, which turns
\* the flag off, and the stub calls intr_handler, up to the handler.
IntrEntry(vec) ==
  /\ iflag
  /\ Deliverable(vec)
  /\ irr' = irr \ {vec}
  /\ isr' = Acknowledged(vec)
  /\ Push(vec, "handler")
  /\ iflag' = FALSE
  /\ in_external_intr' = TRUE
  /\ yield_on_return' = FALSE
  /\ UNCHANGED <<schedVars, old_level, left>>

\* timer_interrupt counts the tick and asks for a switch when the time slice
\* of the thread is used up.  Sleepers read the count; what matters of it is
\* how long each has still to wait.
timer_interrupt ==
  /\ left' = [t \in Threads |-> IF left[t] > 0 THEN left[t] - 1 ELSE left[t]]
  /\ thread_ticks' = Min({thread_ticks + 1, TIME_SLICE})
  /\ yield_on_return' = (yield_on_return \/ thread_ticks + 1 >= TIME_SLICE)

\* The handlers of the other devices never ask for a switch; without a
\* handler the interrupt is ignored or reported.
Handler ==
  /\ AtStage("handler")
  /\ External(Top.vec)
  /\ IF Top.vec = Timer /\ Timer \in Handled THEN timer_interrupt
     ELSE UNCHANGED <<left, thread_ticks, yield_on_return>>
  /\ SetStage("complete")
  /\ UNCHANGED <<status, ready_list, running, iflag, old_level,
                 in_external_intr, irr, isr>>

\* Fault: the interrupt is acknowledged when the thread runs again.
Complete_late ==
  /\ AtStage("complete")
  /\ in_external_intr' = FALSE
  /\ IF yield_on_return
     THEN /\ SetStage("exit")
          /\ Switch(FALSE)
          /\ UNCHANGED isr
     ELSE /\ SetStage("exit")
          /\ isr' = pic_end_of_interrupt(Top.vec)
          /\ UNCHANGED <<schedVars, iflag, old_level>>
  /\ UNCHANGED <<yield_on_return, irr, left>>

\* Fault: the thread yields from within the interrupt context.
Complete_inside ==
  /\ AtStage("complete")
  /\ in_external_intr' = yield_on_return
  /\ isr' = pic_end_of_interrupt(Top.vec)
  /\ SetStage("exit")
  /\ IF yield_on_return THEN Switch(FALSE)
     ELSE UNCHANGED <<schedVars, iflag, old_level>>
  /\ UNCHANGED <<yield_on_return, irr, left>>

\* The end of intr_handler for an external interrupt.
Complete ==
  /\ AtStage("complete")
  /\ in_external_intr' = FALSE
  /\ isr' = pic_end_of_interrupt(Top.vec)
  /\ SetStage("exit")
  /\ IF yield_on_return THEN Switch(FALSE)
     ELSE UNCHANGED <<schedVars, iflag, old_level>>
  /\ UNCHANGED <<yield_on_return, irr, left>>

\* intr_exit: iret restores the flag of the interrupted code.
intr_exit ==
  /\ AtStage("exit")
  /\ iflag' = Top.iflag
  /\ stack' = [stack EXCEPT ![running] = SubSeq(@, 1, Len(@) - 1)]
  /\ UNCHANGED <<schedVars, old_level, in_external_intr, yield_on_return,
                 irr, isr, left>>

-----------------------------------------------------------------------------
(* Internal interrupts and the code that runs in thread context.           *)

\* A user program makes a system call, through a trap gate, or faults,
\* through an interrupt gate.
Trap(vec) ==
  /\ running \in Threads
  /\ ~InFrame
  /\ left[running] = -1
  /\ Push(vec, IF vec = PageFault THEN "enter" ELSE "handler")
  /\ iflag' = (vec # PageFault /\ iflag)
  /\ UNCHANGED <<schedVars, old_level, in_external_intr, yield_on_return,
                 irr, isr, left>>

\* page_fault reads cr2 and turns interrupts on.
page_fault ==
  /\ AtStage("enter")
  /\ iflag' = TRUE
  /\ SetStage("handler")
  /\ UNCHANGED <<schedVars, old_level, in_external_intr, yield_on_return,
                 irr, isr, left>>

\* kill ends the process the fault came from.
kill ==
  /\ AtStage("handler")
  /\ Top.vec = PageFault
  /\ thread_exit
  /\ stack' = [stack EXCEPT ![running] = <<>>]
  /\ iflag' = old_level[running']
  /\ UNCHANGED <<old_level, in_external_intr, yield_on_return, irr, isr,
                 left>>

\* A system call turns interrupts off and on around what must be atomic,
\* gives up the CPU, and returns.
intr_disable ==
  /\ AtStage("handler")
  /\ Top.vec = Syscall
  /\ iflag
  /\ iflag' = FALSE
  /\ UNCHANGED <<schedVars, stack, old_level, in_external_intr,
                 yield_on_return, irr, isr, left>>

intr_set_level ==
  /\ AtStage("handler")
  /\ Top.vec = Syscall
  /\ ~iflag
  /\ iflag' = TRUE
  /\ UNCHANGED <<schedVars, stack, old_level, in_external_intr,
                 yield_on_return, irr, isr, left>>

Yield ==
  /\ AtStage("handler")
  /\ Top.vec = Syscall
  /\ Switch(iflag)
  /\ UNCHANGED <<stack, in_external_intr, yield_on_return, irr, isr, left>>

SyscallReturn ==
  /\ AtStage("handler")
  /\ Top.vec = Syscall
  /\ iflag
  /\ SetStage("exit")
  /\ UNCHANGED <<schedVars, iflag, old_level, in_external_intr,
                 yield_on_return, irr, isr, left>>

\* timer_sleep in a kernel thread: the call, and one turn of its loop.
timer_sleep(n) ==
  /\ running \in Threads
  /\ ~InFrame
  /\ left[running] = -1
  /\ left' = [left EXCEPT ![running] = n]
  /\ UNCHANGED <<schedVars, stack, iflag, old_level, in_external_intr,
                 yield_on_return, irr, isr>>

SleepLoop ==
  /\ running \in Threads
  /\ ~InFrame
  /\ left[running] >= 0
  /\ IF left[running] > 0
     THEN Switch(iflag) /\ UNCHANGED left
     ELSE /\ left' = [left EXCEPT ![running] = -1]
          /\ UNCHANGED <<schedVars, iflag, old_level>>
  /\ UNCHANGED <<stack, in_external_intr, yield_on_return, irr, isr>>

\* idle blocks; when it is switched to again it turns interrupts on and halts
\* until one comes.
Idle ==
  /\ ~InFrame
  /\ idle
  /\ old_level' = [old_level EXCEPT ![idle_thread] = TRUE]
  /\ iflag' = old_level'[running']
  /\ UNCHANGED <<stack, in_external_intr, yield_on_return, irr,
                 isr, left>>

Next ==
  \/ \E vec \in Irqs : Raise(vec) \/ IntrEntry(vec)
  \/ \E vec \in {Syscall, PageFault} : Trap(vec)
  \/ \E n \in 1 .. MaxSleep : timer_sleep(n)
  \/ Handler \/ Complete \/ intr_exit
  \/ page_fault \/ kill \/ intr_disable \/ intr_set_level
  \/ Yield \/ SyscallReturn \/ SleepLoop \/ Idle

\* The clock ticks for ever.  A request the CPU is shown while the flag is on
\* is taken before the next instruction, and code that is running goes on.
Fairness ==
  /\ WF_vars(Raise(Timer))
  /\ \A vec \in Irqs : SF_vars(IntrEntry(vec))
  /\ WF_vars(Handler) /\ WF_vars(Complete) /\ WF_vars(intr_exit)
  /\ WF_vars(page_fault) /\ WF_vars(intr_set_level)
  /\ SF_vars(SleepLoop)

Spec == Init /\ [][Next]_vars /\ Fairness

-----------------------------------------------------------------------------
\* intr_context() is true exactly while the running thread is between the
\* entry of an external interrupt and its acknowledgement; the flag is off
\* all that time, the controllers have that interrupt in service and no other,
\* and no thread was switched out in the middle of one.
ContextAccurate ==
  /\ in_external_intr <=> /\ InFrame
                          /\ External(Top.vec)
                          /\ Top.stage # "exit"
  /\ in_external_intr => ~iflag
  /\ isr[0] = (IF in_external_intr THEN {MasterLine(Top.vec)} ELSE {})
  /\ isr[1] = (IF in_external_intr /\ Top.vec >= 40 THEN {Top.vec} ELSE {})
  /\ \A t \in Threads \ {running} : \A i \in 1 .. Len(stack[t]) :
       External(stack[t][i].vec) => stack[t][i].stage = "exit"

\* A request of a device is delivered in the end, whatever threads are
\* switched in and out by the handlers: each end of interrupt reaches the
\* controller that waits for it.
RequestsServed == \A vec \in Irqs : vec \in irr ~> vec \notin irr

\* A thread that computes for ever is preempted, so that each ready thread
\* gets the CPU; and each timer_sleep ends.
Preempted ==
  /\ \A t \in Threads : status[t] = "READY" ~> status[t] # "READY"
  /\ \A t \in Threads : left[t] > 0 ~> left[t] <= 0
=============================================================================
