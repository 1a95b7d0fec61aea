------------------------------- MODULE Paths -------------------------------
(***************************************************************************)
(* Where a Lisp file is looked for: src/src/path_utils.c and the search    *)
(* list of load_lisp_system_file in src/src/lisp_extension.c.              *)
(*                                                                         *)
(* A path is the sequence of its directories, "/" first if it is absolute, *)
(* and its last component as the sequence of what stands between its dots. *)
(***************************************************************************)
EXTENDS Naturals, SequencesExt

NoPath == [dir |-> <<>>, base |-> <<>>]
NoDirectory == <<>>

(* path_is_absolute *)
IsAbsolute(path) == path.dir # <<>> /\ Head(path.dir) = "/"

(* path_is_installed_bin_directory *)
IsInstalledBin(dir) == Len(dir) >= 2 /\ Last(dir) = "bin"

(* path_construct_data_directory, of an installed program. *)
DataDirectory(dir) == Front(dir) \o <<"share", "mudlark">>

In(dir, path) == [path EXCEPT !.dir = dir \o @]

(* path_construct_installed_resource: nothing unless installed. *)
InstalledResource(exe, subdir, path) ==
  IF exe # NoDirectory /\ IsInstalledBin(exe)
  THEN In(DataDirectory(exe) \o subdir, path)
  ELSE NoPath

(* path_construct_exe_relative: a program that is installed has no files   *)
(* beside it.                                                              *)
ExeRelative(exe, path) ==
  IF exe = NoDirectory \/ IsInstalledBin(exe) THEN <<>> ELSE <<In(exe, path)>>

(* The part of the search list that load_lisp_system_file keeps on its     *)
(* stack.                                                                  *)
LocalPaths(exe, path) ==
  ExeRelative(exe, path)
    \o << In(<<"lisp">>, path), In(<<"..", "lisp">>, path),
          In(<<"lisp", "contrib">>, path), In(<<"..", "lisp", "contrib">>, path) >>

(* The suffix .lisp is added to a name that does not end in it.            *)
Suffixed(path) ==
  IF Len(path.base) > 1 /\ Last(path.base) = "lisp" THEN path
  ELSE [path EXCEPT !.base = Append(@, "lisp")]

(* derive_package_name: the file's name without its last suffix.           *)
PackageName(path) == IF Len(path.base) > 1 THEN Front(path.base) ELSE path.base
=============================================================================
