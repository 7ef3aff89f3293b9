----------------------------- MODULE MCFileBatch -----------------------------
(* The instance of FileBatch for TLC: a batch of two operations beside a call *)
(* of one.  Two of the batches name one file twice.                           *)
EXTENDS FileBatch, TLC

CONSTANTS b1, b2, notes, draft

Change(name, path) == [tool |-> name, path |-> path, source |-> None]
Edit == Change("fs_edit_file", notes)
Write == Change("fs_write_file", notes)
Remove == Change("fs_remove", notes)
Copy == [tool |-> "fs_copy", path |-> draft, source |-> notes]
Call == Change("mcp_call", None)

MCOffers ==
    (b1 :> {<<Edit, Edit>>, <<Edit, Write>>, <<Edit, Copy>>, <<Remove, Copy>>, <<Write, Call>>,
            <<Call, Call>>})
    @@ (b2 :> {<<Edit>>, <<Write>>, <<Remove>>, <<Copy>>, <<Call>>})
=============================================================================
