------------------------------ MODULE MCSlotPool ------------------------------
EXTENDS SlotPool, TLC
===============================================================================
