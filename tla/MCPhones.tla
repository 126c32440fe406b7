------------------------------ MODULE MCPhones ------------------------------
(* Symmetry for the runs of Phones: phones are alike, and so are the sessions *)
(* of passengers; drivers are not chosen by their name either.               *)
EXTENDS Phones, TLC

PhoneSymmetry == Permutations(Phone) \cup Permutations(PassengerSid)
                                       \cup Permutations(OrderId)
=============================================================================
