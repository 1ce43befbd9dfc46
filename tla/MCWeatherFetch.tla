--------------------------- MODULE MCWeatherFetch ---------------------------
(* A small instance of WeatherFetch: one full batch and one that is not. *)
EXTENDS WeatherFetch, TLC

Symmetry == Permutations(Regions)
=============================================================================
