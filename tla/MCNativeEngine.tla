--------------------------- MODULE MCNativeEngine --------------------------
(***************************************************************************)
(* A vocabulary for NativeEngine with a plain character, a character cut   *)
(* in two, a stray byte and an end, and a context that a long prompt and   *)
(* its reply do not fit in.                                                *)
(***************************************************************************)
EXTENDS NativeEngine

MCPiece == [plain |-> <<"ascii">>,
            first |-> <<"ascii", "lead2">>,
            rest  |-> <<"continuation">>,
            stray |-> <<"overlong">>,
            stop  |-> <<"ascii">>]

=============================================================================
