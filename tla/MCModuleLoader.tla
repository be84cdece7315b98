--------------------------- MODULE MCModuleLoader ---------------------------
(* Instances of ModuleLoader: four directories, at most two modules on disk *)
(* besides the main program, at most two sandboxes.                         *)
EXTENDS ModuleLoader

CONSTANTS fs, app, main, a, b, s1, s2, root, home, cwd, lib

MCNames == {fs, app, main, a, b}
MCDirs  == {root, home, cwd, lib}

At(d, n, e) == [dir |-> d, base |-> n, ext |-> e]

\* cwd/a is a symbolic link to home/a.js; every other path is canonical.
MCReal == [p \in [dir : MCDirs, base : MCNames, ext : {"", ".js"}] |->
             IF p = At(cwd, a, "") THEN At(home, a, ".js") ELSE p]

Files(fset, dset, uset) ==
  [p \in [dir : MCDirs, base : MCNames, ext : {"", ".js"}] |->
     IF p \in fset THEN "file" ELSE IF p \in dset THEN "dir"
     ELSE IF p \in uset THEN "unreadable" ELSE "none"]

\* main and a.js in places of their own; b is a directory next to a.js, and
\* b.js is in the last global path.
MCDisk == Files({At(cwd, main, ""), At(home, a, ".js"), At(lib, b, ".js")},
                {At(home, b, "")}, {At(lib, app, ".js")})

MCGlobalPaths == <<cwd, lib>>
MCVolatile    == {At(cwd, b, ""), At(lib, b, ".js")}

\* a is required by its absolute name; home/a.js must not be found for it.
MCAbsoluteDisk ==
  Files({At(cwd, main, ""), At(root, a, ".js"), At(home, a, ".js"), At(lib, b, ".js")},
        {At(root, a, ""), At(cwd, b, "")}, {})
=============================================================================
