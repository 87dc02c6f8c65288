---------------------------- MODULE MCBufferCache ----------------------------
EXTENDS BufferCache

CONSTANTS super, indirect, bitmap, block

(* balloc and bfree read the superblock and the bitmap under the indirect   *)
(* block.                                                                   *)
MCNested == {<<indirect, super>>, <<indirect, bitmap>>}
===============================================================================
