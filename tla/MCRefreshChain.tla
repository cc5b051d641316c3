--------------------------- MODULE MCRefreshChain ---------------------------
EXTENDS RefreshChain, TLC

CONSTANTS avion, cotizacion, reservas,
          eze, aep, divisa, rofex, bcra

MCOrder == avion :> <<eze, aep>> @@ cotizacion :> <<divisa, rofex>>
           @@ reservas :> <<bcra>>

MCOnFailure == avion :> "abort" @@ cotizacion :> "skip" @@ reservas :> "default"

\* One request runs Start() of a controller that is launched, one of the other's.
MCMaxAsked == avion :> 0 @@ cotizacion :> 1 @@ reservas :> 1

MCKeys == UNION {{Order[c][i] : i \in 1 .. Len(Order[c])} : c \in Controllers}
=============================================================================
