SPECIFICATION Spec
CONSTANTS
  Key <- Devices
  Kind = {"serial", "ssh"}
  MaxAdds = 2
  Earlier <- OtherViews
INVARIANTS TypeOK ListenFailsOnlyAfterDel ListenersAreRegistered ViewsMatch RegistryFollows
PROPERTIES EveryViewOpens
CHECK_DEADLOCK FALSE
