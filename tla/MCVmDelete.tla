----------------------------- MODULE MCVmDelete --------------------------------
EXTENDS VmDelete, TLC
===============================================================================
