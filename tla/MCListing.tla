------------------------------ MODULE MCListing ------------------------------
(* Five items to start with, two of them created in the same second, and two *)
(* more that may arrive.                                                     *)
EXTENDS Listing

MCItems   == 1..7
MCCreated == <<1, 2, 3, 3, 4, 5, 5>>
MCFirst   == <<5, 4, 3, 2, 1>>
=============================================================================
