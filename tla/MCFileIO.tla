------------------------------ MODULE MCFileIO ------------------------------
(***************************************************************************)
(* A mount with room for two entries and one below the first, and the ways *)
(* of writing their names that a guest program may try.                    *)
(***************************************************************************)
EXTENDS FileIO

MCEntries == {<<"a">>, <<"b">>, <<"a", "b">>}
MCPaths ==
  {<<"a">>, <<"", ".", "a">>, <<"a", "">>, <<"a", ".">>, <<"a", "..", "b">>,
   <<"b">>, <<"a", "b">>, <<".", "", "b">>, <<"">>, <<"\\">>}
=============================================================================
