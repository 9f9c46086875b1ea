--------------------------- MODULE MC_PostDelivery ---------------------------
EXTENDS PostDelivery

\* A plugin to itself, or one for all.
Each      == [d \in Deliveries |-> d]
Alone     == [d \in Deliveries |-> 1]
=============================================================================
