------------------------------ MODULE MCFiles ------------------------------
(* An instance of Files: the names a, d and disk, a FAT volume with one file. *)
EXTENDS Files, TLC

MCNameOrder == <<"a", "d", "disk">>
MCNameBytes == [n \in {"a", "d", "disk"} |-> IF n = "disk" THEN 5 ELSE 2]
MCCutName == [n \in {"a", "d", "disk"} |-> IF n = "disk" THEN <<"d", "di", "dis">> ELSE <<>>]
MCPaths == {<<>>, <<"d">>, <<"d", "a">>, <<"disk">>, <<"disk", "a">>, <<"disk", "d">>}
MCMountPath == <<"disk">>
MCDiskFiles == [q \in {<<"a">>} |-> <<1>>]
MCDiskDirs == {<<>>}

Nothing == [c \in Calls |-> {}]

\* Two processes share and redirect the descriptors of one file.
Sharing == [p \in {1, 2} |->
  [Nothing EXCEPT !.open = IF p = 1 THEN {<<"d", "a">>} ELSE {}, !.creat = IF p = 1 THEN {<<"d", "a">>} ELSE {},
                  !.unlink = IF p = 1 THEN {<<"d", "a">>} ELSE {}, !.fork = IF p = 1 THEN {2} ELSE {},
                  !.read = IF p = 1 THEN {2} ELSE {}, !.write = IF p = 2 THEN {<<1>>} ELSE {},
                  !.close = Fds, !.dup2 = IF p = 2 THEN Fds ELSE {}]]

\* One process works on the names of the root filesystem.
Naming == [p \in {1, 2} |-> IF p = 2 THEN Nothing ELSE
  [Nothing EXCEPT !.open = {<<>>, <<"d", "a">>}, !.creat = {<<"d">>, <<"d", "a">>},
                  !.unlink = {<<"d">>, <<"d", "a">>}, !.mkdir = {<<"d">>},
                  !.chdir = {[abs |-> FALSE, parts |-> <<"d">>],
                             [abs |-> TRUE, parts |-> <<"d", ".", "..", "..", "d">>]},
                  !.read = {1}, !.readdir = {2}, !.lseek = {0, 3}, !.close = Fds]]

\* One process works on the names of the mounted volume, and below the
\* directory of the root filesystem that the mount hides.
Mounted == [p \in {1, 2} |-> IF p = 2 THEN Nothing ELSE
  [Nothing EXCEPT !.open = {<<"disk">>, <<"disk", "a">>}, !.creat = {<<"disk">>, <<"disk", "d">>},
                  !.unlink = {<<"disk", "d">>}, !.mkdir = {<<"disk", "d">>},
                  !.chdir = {[abs |-> FALSE, parts |-> <<"..", "disk">>], [abs |-> FALSE, parts |-> <<"d">>], [abs |-> TRUE, parts |-> <<"disk", "d">>]},
                  !.read = {2}, !.readdir = {2}, !.lseek = {0}, !.close = Fds]]

\* One process moves about in a file, past its end too, lists it as if it were
\* a directory, and takes its name and its last descriptor away.
Seeking == [p \in {1, 2} |-> IF p = 2 THEN Nothing ELSE
  [Nothing EXCEPT !.open = {<<"d", "a">>}, !.creat = {<<"d", "a">>}, !.unlink = {<<"d", "a">>},
                  !.read = {1, 2}, !.readdir = {1}, !.write = {<<1>>, <<1, 1>>},
                  !.lseek = {0, 2}, !.close = Fds, !.dup = Fds, !.dup2 = Fds]]

MCPrograms == {Sharing, Naming, Mounted, Seeking}
============================================================================
