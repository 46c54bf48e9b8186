------------------------------ MODULE MCChannel ------------------------------
\* Two workers and a main thread, with few enough buffers that the allocator
\* hands out freed addresses again while other threads still use them.
EXTENDS Channel, TLC

Symmetry == Permutations(Objects) \union Permutations(Addresses)
              \union Permutations(Workers)
=============================================================================
