---------------------------- MODULE PlantLayout ----------------------------
(***************************************************************************)
(* Where plant_layout.cpp puts the devices of the plant view: plants side  *)
(* by side, the floors of a plant one behind the other, the devices of a   *)
(* floor on a grid, and the whole centred on the origin.  Heights and      *)
(* values are left out: no position depends on them.                       *)
(*                                                                         *)
(* Lengths are in units of 0.6, which all of them are multiples of, and    *)
(* coordinates in half units.                                              *)
(***************************************************************************)
EXTENDS Integers, FiniteSets, FiniteSetsExt

CONSTANT MaxColumns     \* max_columns

ASSUME ColumnsAssumption == MaxColumns \in Nat \ {0}

Spacing == 4
ZoneGap == 5
PlantGap == 10

\* A sum of lengths, as the number of the units they are made of.
Total(lengths) == Cardinality(UNION {{x} \X (1..lengths[x]) : x \in DOMAIN lengths})

\* A plant is given by at: a function from keys, numbered in the order of their
\* device and sensor, to places, which are pairs of a plant and a floor.
Zone(at, p) == {k \in DOMAIN at : at[k] = p}
Plants(at) == {at[k][1] : k \in DOMAIN at}
Floors(at, plant) == {p \in {at[k] : k \in DOMAIN at} : p[1] = plant}

\* clamp(ceil(sqrt(1.6 n)), 1, max_columns).
Columns(n) == Min({c \in 1..MaxColumns : c = MaxColumns \/ 10 * c * c >= 16 * n})

RowsFor(n) == (n + Columns(n) - 1) \div Columns(n)

\* Mutant: a plant is as wide as its narrowest floor.
PlantWidthOfNarrowest(at, plant) ==
    Spacing * Min({Columns(Cardinality(Zone(at, p))) : p \in Floors(at, plant)})

PlantWidth(at, plant) ==
    Spacing * Max({Columns(Cardinality(Zone(at, p))) : p \in Floors(at, plant)})

Depth(at, p) == Spacing * RowsFor(Cardinality(Zone(at, p)))

\* The corner of a zone, before the scene is centred.
Left(at, p) ==
    Total([plant \in {q \in Plants(at) : q < p[1]} |-> PlantWidth(at, plant) + PlantGap])
Near(at, p) ==
    Total([q \in {f \in Floors(at, p[1]) : f[2] < p[2]} |-> Depth(at, q) + ZoneGap])

\* The zones, centred on the origin: the coordinates of their centres and their
\* sizes.
Zones(at) ==
    LET places == {at[k] : k \in DOMAIN at}
        left  == Min({Left(at, p) : p \in places})
        right == Max({Left(at, p) + PlantWidth(at, p[1]) : p \in places})
        near  == Min({Near(at, p) : p \in places})
        far   == Max({Near(at, p) + Depth(at, p) : p \in places})
    IN  [p \in places |->
            [x |-> 2 * Left(at, p) + PlantWidth(at, p[1]) - (left + right),
             z |-> 2 * Near(at, p) + Depth(at, p) - (near + far),
             width |-> PlantWidth(at, p[1]), depth |-> Depth(at, p)]]

\* The place of a device in the order of its zone, from 0.
Rank(at, k) == Cardinality({j \in Zone(at, at[k]) : j < k})

\* The place of a device in a zone.
Cell(at, k, zone) ==
    LET columns == Columns(Cardinality(Zone(at, at[k]))) IN
    [x |-> zone.x + (2 * (Rank(at, k) % columns) + 1 - columns) * Spacing,
     z |-> zone.z + (2 * (Rank(at, k) \div columns) + 1) * Spacing - zone.depth]

\* layout.
Layout(at) ==
    LET zones == Zones(at) IN
    [zones |-> zones, devices |-> [k \in DOMAIN at |-> Cell(at, k, zones[at[k]])]]

\* The order of scene.devices: by zone, then by device and sensor.
Before(at, j, k) ==
    \/ at[j][1] < at[k][1]
    \/ at[j][1] = at[k][1] /\ at[j][2] < at[k][2]
    \/ at[j] = at[k] /\ j < k
IndexOf(at, k) == IF k \in DOMAIN at
                  THEN 1 + Cardinality({j \in DOMAIN at : Before(at, j, k)})
                  ELSE 0

\* nearest: the last of the devices that are closest to a point, if within reach
\* (squared).
Nearest(at, devices, x, z, reach2) ==
    LET distance2 == [k \in DOMAIN at |-> (devices[k].x - x) * (devices[k].x - x)
                                           + (devices[k].z - z) * (devices[k].z - z)]
        within == {k \in DOMAIN at : distance2[k] <= reach2}
        closest == {k \in within : \A j \in within : distance2[k] <= distance2[j]}
    IN  {k \in closest : \A j \in closest : ~Before(at, k, j)}

-----------------------------------------------------------------------------
\* Do two intervals, given by centre and length, keep apart?
Apart(c1, l1, c2, l2) == c1 - c2 >= l1 + l2 \/ c2 - c1 >= l1 + l2
\* Does the first lie in the second?
Within(c1, l1, c2, l2) == c1 - c2 + l1 <= l2 /\ c2 - c1 + l1 <= l2

\* Zones keep apart, and so do the cells of the devices, which lie in their zones;
\* the zones reach as far to one side as to the other; and a click close to a device
\* (1.4 being the reach) finds that device.
LayoutIsSound(at) ==
    LET scene == Layout(at)
        zones == scene.zones
        cells == scene.devices
    IN
    /\ \A p, q \in DOMAIN zones :
          p # q => \/ Apart(zones[p].x, zones[p].width, zones[q].x, zones[q].width)
                   \/ Apart(zones[p].z, zones[p].depth, zones[q].z, zones[q].depth)
    /\ \A k \in DOMAIN at :
          /\ Within(cells[k].x, Spacing, zones[at[k]].x, zones[at[k]].width)
          /\ Within(cells[k].z, Spacing, zones[at[k]].z, zones[at[k]].depth)
    /\ \A j, k \in DOMAIN at :
          j # k => \/ Apart(cells[j].x, Spacing, cells[k].x, Spacing)
                   \/ Apart(cells[j].z, Spacing, cells[k].z, Spacing)
    /\ DOMAIN at # {} =>
          /\ Min({zones[p].x - zones[p].width : p \in DOMAIN zones})
               = -Max({zones[p].x + zones[p].width : p \in DOMAIN zones})
          /\ Min({zones[p].z - zones[p].depth : p \in DOMAIN zones})
               = -Max({zones[p].z + zones[p].depth : p \in DOMAIN zones})
    /\ \A k \in DOMAIN at : Nearest(at, cells, cells[k].x + 1, cells[k].z - 1, 21) = {k}
=============================================================================
