--------------------------- MODULE MCRemoteTransfer ---------------------------
(* A selected folder with a file and a folder that holds a file and, maybe,   *)
(* a hidden one; a selected file; and a folder with a file beside them.       *)
EXTENDS RemoteTransfer

MCDirs == {<<"a">>, <<"a", "b">>, <<"z">>}
MCFiles == {<<"a", "f">>, <<"a", "b", "g">>, <<"a", "b", ".h">>, <<"t">>, <<"z", "f">>}
MCHidden == {<<"a", "b", ".h">>}
MCSelection == <<<<"a">>, <<"t">>>>
===============================================================================
