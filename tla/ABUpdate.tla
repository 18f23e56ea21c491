------------------------------- MODULE ABUpdate -------------------------------
(***************************************************************************)
(* What an update over two banks promises: the bank that boots always      *)
(* holds an authentic image, and as long as that image has not been        *)
(* accepted, the other bank holds an accepted one to go back to.           *)
(***************************************************************************)
EXTENDS Integers

Banks == {1, 2}
Contents == {"erased", "partial", "authentic"}
Other(bank) == 3 - bank

VARIABLES
  boot,      \* the bank that boots
  image,     \* what each bank holds
  confirmed  \* the banks whose image has been accepted

vars == <<boot, image, confirmed>>

Init ==
  /\ boot \in Banks
  /\ image \in [Banks -> Contents] /\ image[boot] = "authentic"
  /\ confirmed = {boot}

\* The other bank is erased, written or cleaned up.
Overwrite ==
  /\ boot \in confirmed
  /\ \E c \in Contents : image' = [image EXCEPT ![Other(boot)] = c]
  /\ confirmed' = confirmed \ {Other(boot)}
  /\ UNCHANGED boot

\* A new image boots for the first time.
Try ==
  /\ boot \in confirmed
  /\ image[Other(boot)] = "authentic"
  /\ boot' = Other(boot)
  /\ UNCHANGED <<image, confirmed>>

Accept ==
  /\ confirmed' = confirmed \cup {boot}
  /\ UNCHANGED <<boot, image>>

\* The device goes back to the other image, which had been accepted.
Revert ==
  /\ Other(boot) \in confirmed
  /\ boot' = Other(boot)
  /\ UNCHANGED <<image, confirmed>>

Next == Overwrite \/ Try \/ Accept \/ Revert

Spec == Init /\ [][Next]_vars

\* The type of every variable.
TypeOK ==
  /\ boot \in Banks
  /\ image \in [Banks -> Contents]
  /\ confirmed \subseteq Banks

\* The bank that boots holds an authentic image, and so does the accepted
\* one to return to while the image that boots is on trial.
Recoverable ==
  /\ image[boot] = "authentic"
  /\ \A b \in confirmed : image[b] = "authentic"
  /\ boot \notin confirmed => Other(boot) \in confirmed
=============================================================================
