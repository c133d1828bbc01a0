---------------------------- MODULE MCInterrupts ----------------------------
\* Interrupt handling on small sets of sources and priorities.
EXTENDS InterruptsInv

\* Core 0 runs the interpreter and uses everything; core 1 only sends it
\* software interrupts.
FirstCoreApi ==
  [c \in Cores |->
     IF c = 0 THEN {"irq_enable", "irq_disable", "set_priority", "timer_start",
                    "timer_stop", "ipi_enable", "ipi_disable", "ipi_send"}
              ELSE {"ipi_send"}]
=============================================================================
