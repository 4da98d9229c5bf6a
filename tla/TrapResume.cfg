\* A tick interrupts the idle task at any instruction.
SPECIFICATION Spec
INVARIANTS
  ResumesAtInstruction
