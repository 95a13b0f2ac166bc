------------------------------ MODULE MCSettings ------------------------------
(* Two sites: one entered as an HTTP server today, whose address may hold brackets; *)
(* one left by the older version, whose directory may.                              *)
EXTENDS Settings

Nothing == [url |-> "", password |-> "", directory |-> "default"]

MCSites == <<"Site 1", "Site 2">>
MCTyped == [s \in Sites |-> IF s = "Site 1" THEN {"http", "[address]"} ELSE {}]
MCSecrets == [s \in Sites |-> IF s = "Site 2" THEN {"short"} ELSE {}]
MCVisited == [s \in Sites |-> IF s = "Site 2" THEN {"[directory]"} ELSE {}]
MCOld == [s \in Sites |->
            IF s = "Site 1" THEN Nothing
            ELSE [url |-> "http", password |-> "long", directory |-> "default"]]

===============================================================================
