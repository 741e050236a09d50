-------------------------- MODULE MCNativeTerminal --------------------------
(* Small instances of NativeTerminal for TLC. *)
EXTENDS NativeTerminal

\* The size in the Attach frame, and one with other columns.
OneSize == {<<80, 24>>}
TwoSizes == OneSize \cup {<<90, 30>>}
=============================================================================
