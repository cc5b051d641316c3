SPECIFICATION FairSpec
CONSTANTS
    avion = avion
    cotizacion = cotizacion
    reservas = reservas
    eze = eze
    aep = aep
    divisa = divisa
    rofex = rofex
    bcra = bcra
    Controllers = {avion, cotizacion, reservas}
    Launched = {avion, cotizacion}
    MaxAsked <- MCMaxAsked
    Keys <- MCKeys
    Order <- MCOrder
    OnFailure <- MCOnFailure
    ReadThrough = {aep}
    Failing = {aep, divisa, bcra}
    Changing = {rofex}
    Threads = {t1, t2}
    Readers = {r1}
    Idle = Idle
    Default = Default
    Missing = Missing
    MaxVersion = 1
INVARIANTS TypeOK ChainsAsStarted
PROPERTIES NeverGoesBack StaysFresh
