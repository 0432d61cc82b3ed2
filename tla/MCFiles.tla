------------------------------ MODULE MCFiles -------------------------------
(***************************************************************************)
(* Small disks and paths for Files.  A sector has 2 bytes.  On Scattered a  *)
(* cluster has 2 sectors, chains end with the formatter's 0xffff, the field *)
(* number_of_sectors is 0 as the boot sector of the repository has it, and  *)
(* a file's clusters lie around another's.  On Growing a cluster is one     *)
(* sector and chains end with the mark the code itself writes, so that      *)
(* files can grow.  Deleted is Growing with a deleted record in front.      *)
(***************************************************************************)
EXTENDS Files

File(name, ext, attribute, cluster, filesize) ==
  [filename |-> name, ext |-> ext, attribute |-> attribute, cluster |-> cluster, filesize |-> filesize]

Bytes(n) == [p \in 0 .. n - 1 |-> p]

DotB == File(<<"B", " ">>, <<" ">>, {"READ_ONLY"}, 5, 3)
Dir(cluster) == File(<<"D", " ">>, <<" ">>, {"SUBDIRECTORY"}, cluster, 0)
Empty == File(<<"A", "B">>, <<" ">>, {}, 0, 0)
Gone == File(<<"e5", "B">>, <<" ">>, {}, 0, 0)

Scattered ==
  [signature |-> \h29, sectors_per_cluster |-> 2, number_of_sectors |-> 0,
   reserved_sectors |-> 1, fat_copies |-> 1, sectors_per_fat |-> 1, root_dir_entries |-> 4,
   root |-> <<Dir(3), File(<<"A", " ">>, <<"B">>, {}, 2, 6), Empty>>,
   directory |-> 3 :> <<DotB>>,
   fat |-> 2 :> 4 @@ 3 :> \hffff @@ 4 :> \hffff @@ 5 :> \hffff,
   disk |-> Bytes(24)]

Growing ==
  [signature |-> \h29, sectors_per_cluster |-> 1, number_of_sectors |-> 8,
   reserved_sectors |-> 1, fat_copies |-> 2, sectors_per_fat |-> 1, root_dir_entries |-> 4,
   root |-> <<File(<<"A", " ">>, <<"B">>, {}, 2, 4), Dir(3)>>,
   directory |-> 3 :> <<DotB>>,
   fat |-> 2 :> 4 @@ 3 :> \hfff @@ 4 :> \hfff @@ 5 :> \hfff @@ 6 :> 0 @@ 7 :> 0,
   disk |-> Bytes(20)]

Deleted == [Growing EXCEPT !.root = <<Gone>> \o @]

Foreign == [Growing EXCEPT !.signature = 0]

MCImages == {Scattered, Growing, Deleted, Foreign}

MCPaths ==
  {<<"0", ":", "/", "a", ".", "b">>, <<"0", ":", "/", "d", "/", "b">>, <<"0", ":", "/", "d", "/", "/", "b">>,
   <<"0", ":", "/", "A", "b">>, <<"0", ":", "/", "a", ".", "b", "/", "b">>, <<"1", ":", "/", "d">>,
   <<"0", ":", "/">>, <<"d">>}
=============================================================================
