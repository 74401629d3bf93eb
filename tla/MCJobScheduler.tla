--------------------------- MODULE MCJobScheduler ---------------------------
(***************************************************************************)
(* Small instances of JobScheduler.                                        *)
(***************************************************************************)
EXTENDS JobScheduler

CONSTANTS t1, s1, s2, a1, a2, x, y, z,
          readX, writeX, atomicX, writeXreadY, readXwriteY, atomicXY, writeZ,
          readWriteX

(* One storage with the components x and y in one archetype, another with  *)
(* the component z.                                                        *)
OneMain        == [s \in Storages |-> t1]
MCArchetypeOf  == [e \in Entries |-> IF e = z THEN a2 ELSE a1]
MCStorageOf    == [a \in Archetypes |-> IF a = a2 THEN s2 ELSE s1]
MCQueryStorage == [q \in Queries |-> IF q = writeZ THEN s2 ELSE s1]

Par(e, m) == [entry |-> e, mode |-> m]

MCParams ==
  [q \in Queries |->
     CASE q = readX       -> <<Par(x, "read")>>
       [] q = writeX      -> <<Par(x, "write")>>
       [] q = atomicX     -> <<Par(x, "atomic")>>
       [] q = writeXreadY -> <<Par(x, "write"), Par(y, "read")>>
       [] q = readXwriteY -> <<Par(x, "read"), Par(y, "write")>>
       [] q = atomicXY    -> <<Par(x, "atomic"), Par(y, "atomic")>>
       [] q = writeZ      -> <<Par(z, "write")>>
       [] q = readWriteX  -> <<Par(x, "read"), Par(x, "write")>>]
=============================================================================
