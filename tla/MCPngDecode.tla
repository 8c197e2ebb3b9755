---------------------------- MODULE MCPngDecode ----------------------------
(* Instances of PngDecode for TLC. *)
EXTENDS PngDecode

Pic(rows, cols, len) == [rows |-> rows, cols |-> cols, header |-> 2, stream |-> 5, len |-> len]

\* Whole files, one with rows of odd length, and two that are cut off.
MCImages == {Pic(1, 4, 5), Pic(2, 3, 5), Pic(3, 1, 5), Pic(2, 2, 4), Pic(2, 2, 1)}

MCFeatures == {{}, {"explicit"}, {"auto"}, {"explicit", "auto"}}

\* The native functions with what the benchmark and main give them; decode_png
\* with the benchmark's buffers, and with any other where the host may access
\* no memory but its own and the buffers of reads.
MCChecked ==
    [host : {"native"}, features : {{}}, buffer : {"sized", "rows"}]
    \cup [host : {"lfi"}, features : MCFeatures, buffer : {"sized"}]
    \cup [host : {"lfi"}, features : {{"explicit"}}, buffer : {"malloc", "exact"}]

\* main, without the features or with auto_allow_revoke.
MCMain == [host : {"lfi"}, features : {{}, {"auto"}}, buffer : {"malloc"}]

MCSized == [host : {"lfi"}, features : MCFeatures, buffer : {"sized"}]

=============================================================================
