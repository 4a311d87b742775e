------------------------------- MODULE AtomicPort -------------------------------
(***************************************************************************)
(* What the serial port promises a bus master: the accesses of SerialPort, *)
(* at most one read and one write at a time, the answer of each read, and  *)
(* when everything has been sent.                                          *)
(***************************************************************************)
EXTENDS SerialPort

CONSTANTS Writes, Readable     \* what the master writes, and the registers it reads

VARIABLES
    sending,   \* the byte the line took last is still being sent
    answer     \* the answer of the read in progress

NoAnswer == [bytes |-> << >>]

\* TX_DONE: nothing is left, not even on the line.
Status ==
    IF txq = << >> /\ held = << >> /\ ~sending THEN irq_status \cup {"TX_DONE"} ELSE irq_status
AnswerTo(reg) == IF reg = "IRQ_STATUS" THEN [flags |-> Status] ELSE Value(reg)

Init == PortInit /\ sending = FALSE /\ answer = NoAnswer

\* A read and a write may meet in one clock: the read sees what was there before it. An
\* answer that has been taken is forgotten. ends: a stop bit ends, which the next byte has
\* to wait for.
Next ==
    \E w \in {None} \cup Writes, takes, ends \in BOOLEAN :
       /\ Transmit(w, takes)
       /\ takes => ~sending \/ ends
       /\ sending' = (takes \/ (sending /\ ~ends))
       /\ \E line \in Lines :
            /\ Registers(w, line)
            /\ \/ Receive(None, line) /\ answer' \in {answer, NoAnswer}
               \/ \E reg \in Readable : Receive(Read(reg), line) /\ answer' = AnswerTo(reg)

Spec == Init /\ [][Next]_<<portVars, sending, answer>>
================================================================================
