------------------------------- MODULE MCNss -------------------------------
(***************************************************************************)
(* Nss for TLC: two threads.  Some buffers are exactly as large as an      *)
(* entry needs, or one byte too small; a list may be empty or hold an      *)
(* entry twice.                                                            *)
(***************************************************************************)
EXTENDS Nss

MCStrings ==
  [passwd |-> [ann |-> [name |-> 3, gecos |-> 0, home |-> 9, shell |-> 7],
               bob |-> [name |-> 3, gecos |-> 6, home |-> 9, shell |-> 8]],
   group |-> [ann |-> [name |-> 5, members |-> <<>>],
              bob |-> [name |-> 3, members |-> <<3, 0>>]]]
MCLists == {<<>>, <<"bob", "ann">>, <<"ann", "ann">>}
MCBufLens == {15, 16, 25, 31, 40}

MCGidLists == {<<>>, <<2, 1, 2>>, <<3, 4>>, <<4, 2, 3>>}

Enumerates(d) == {<<fn, d>> : fn \in EnumFns}
MCWorkloads ==
  {[t1 |-> Enumerates("passwd"), t2 |-> Enumerates("passwd")],
   [t1 |-> Enumerates("passwd"), t2 |-> {<<"setent", "group">>}],
   [t1 |-> Enumerates("group"), t2 |-> {<<"lookup", "passwd">>, <<"lookup", "group">>}],
   [t1 |-> {<<"initgroups", "group">>}, t2 |-> {<<"lookup", "group">>}]}

(* Root and another user, with files as they should be, and with files     *)
(* that are missing, open to others, or somebody else's; the cache in a    *)
(* file or in memory.                                                      *)
Mode640 == 416
Mode400 == 256
NoFile == File("absent", Root, 0)
MCHosts ==
  {h \in [euid : {Root, 7}, toml_ok : BOOLEAN, memory : BOOLEAN,
          config : {File("file", Root, Mode644)},
          token : {File("file", o, m) : o \in {Root, 7}, m \in {Mode400, Mode640}}
                    \cup {File("other", Root, Mode600)},
          cache : {NoFile, File("other", Root, Mode600)}
                    \cup {File("file", o, m) : o \in {Root, 7}, m \in {Mode600, Mode644}}] :
     h.memory => h.cache = NoFile}
=============================================================================
