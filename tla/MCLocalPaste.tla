----------------------------- MODULE MCLocalPaste -----------------------------
(* LocalPaste over three selected entries: a file, a link to a folder, and *)
(* a folder with a hidden file, another link and a folder with a file.     *)
EXTENDS LocalPaste

MCSelection == <<"readme", "game", "latest">>
MCEntries ==
  {"readme", "game", "latest", "game/.cfg", "game/saves", "game/sub", "game/sub/rom"}
MCParent ==
  [e \in MCEntries \ {"readme", "game", "latest"} |->
      IF e = "game/sub/rom" THEN "game/sub" ELSE "game"]
MCAbove[e \in MCEntries] ==
  {e} \cup IF e \in DOMAIN MCParent THEN MCAbove[MCParent[e]] ELSE {}
MCKind ==
  [e \in MCEntries |-> CASE e \in {"game", "game/sub"} -> "folder"
                         [] e \in {"latest", "game/saves"} -> "link"
                         [] OTHER -> "file"]
MCHidden == {"game/.cfg"}
===============================================================================
