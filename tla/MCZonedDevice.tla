---------------------------- MODULE MCZonedDevice ---------------------------
(* Instances of ZonedDevice for TLC.                                        *)
EXTENDS ZonedDevice

Opt(name, val) == [name |-> name, val |-> val]

Device(size, first, later) == [size |-> size, first |-> first, later |-> later]

\* The default (host managed), a host aware device opened again without its
\* options, one that keeps them, options that are refused, a device with large
\* blocks, one whose size is no multiple of the block size, and one whose only
\* zone is conventional.
AllConfigs ==
    {Device(2560, << >>, << >>), Device(2560, <<Opt("model", "HA")>>, << >>),
     Device(2560, <<Opt("zsize", 2048), Opt("open", 1)>>, <<Opt("lba", 512), Opt("zsize", 2048)>>),
     Device(2560, <<Opt("conv", 9)>>, <<Opt("conv", 9)>>), Device(2560, <<Opt("zsize", 3)>>, << >>),
     Device(12288, <<Opt("lba", 4096), Opt("zsize", 8192)>>, << >>),
     Device(2100, <<Opt("conv", 1)>>, << >>), Device(1024, << >>, << >>)}
\* Buffers of one and of two parts.
AllIovs == {<<1>>, <<2>>, <<1, 1>>}
=============================================================================
