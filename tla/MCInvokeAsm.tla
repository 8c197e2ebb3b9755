---------------------------- MODULE MCInvokeAsm ----------------------------
EXTENDS InvokeAsm

\* Every instance of invoke_asm!, with and without stacked words where it may
\* have them: an odd and an even number, so that the padding differs.
MCConventions ==
    [areg : {0, 1, 2, 3, 6}, spill : 0 .. 2] \cup [areg : {4, 5}, spill : {0}]

=============================================================================
