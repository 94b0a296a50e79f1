------------------------------ MODULE MCLLMRuntime ------------------------------
EXTENDS LLMRuntime
CONSTANTS m1, m2
===============================================================================
